---------------------------- MODULE Spec2Model ----------------------------
(***************************************************************************)
(* Model of the SNS Topic reconciliation helpers of provider-aws-controlapi*)
(* (internal/clients/sns/topicclient.go and the pointer/parse helpers of   *)
(* internal/clients).                                                      *)
(*                                                                         *)
(* Go values are encoded as follows:                                       *)
(*   - a pointer to string or bool and a nil-able map are an option: the   *)
(*     empty sequence is nil, a one-element sequence <<v>> is a set value; *)
(*   - map[string]string is a function whose DOMAIN is the set of keys     *)
(*     present; indexing a missing key yields "" as in Go;                 *)
(*   - []types.Tag is a sequence of records [Key, Value]; the nil slice    *)
(*     and the empty slice are both the empty sequence;                    *)
(*   - a run-time panic is recorded in the field `panicked` of the result. *)
(***************************************************************************)
EXTENDS Integers, Sequences, FiniteSets

VARIABLES
    forProvider,    \* v1alpha1.TopicParameters: the desired state
    topicAttributes,\* map[string]string returned by GetTopicAttributes
    topicTags,      \* []types.Tag returned by ListTagsForResource
    current,        \* cr.Spec.ForProvider.DeepCopy() taken before LateInitialize
    call,           \* the function that has been applied ("none" before)
    ret,            \* what that function returned
    externalName,   \* meta.GetExternalName(cr): the annotation, "" when unset
    condition,      \* the condition last set on cr.Status
    atProvider,     \* cr.Status.AtProvider
    kube,           \* Spec.ForProvider of the Topic as stored by c.kube
    aws,            \* the topic held by the SNS service
    calls,          \* the client calls issued by the latest handler call
    handler,        \* the handler of `external` that ran last
    returned,       \* what that handler returned
    deleting,       \* whether deletion of the Topic has been requested
    created,        \* the ARNs that CreateTopic has returned so far
    lastUpdate,     \* the attribute updates of the latest Update call
    par             \* the passes that run side by side, one for each Topic

pureVars == <<forProvider, topicAttributes, topicTags, current, call, ret>>
ctlVars == <<externalName, condition, atProvider, kube, aws, calls, handler,
             returned, deleting, created, lastUpdate>>
vars == <<forProvider, topicAttributes, topicTags, current, call, ret,
          externalName, condition, atProvider, kube, aws, calls, handler,
          returned, deleting, created, lastUpdate, par>>

-----------------------------------------------------------------------------
(* Bounds of the explored input space *)

\* largest number of desired tags and of observed tags
MaxTags == 2
\* largest number of attributes that depart from the in-sync baseline
MaxVaried == 2

-----------------------------------------------------------------------------
(* apis/sns/v1alpha1/topic_types.go: attribute names *)

TopicDeliveryPolicy == "DeliveryPolicy"
TopicDisplayName == "DisplayName"
TopicPolicy == "Policy"
FifoTopic == "FifoTopic"
TopicKMSMasterKeyID == "KmsMasterKeyId"
FifoTopicContentBasedDeduplication == "ContentBasedDeduplication"

TextAttrs == {TopicPolicy, TopicDisplayName, TopicDeliveryPolicy, TopicKMSMasterKeyID}
FlagAttrs == {FifoTopic, FifoTopicContentBasedDeduplication}

-----------------------------------------------------------------------------
(* Go built-ins and standard library *)

Nil == <<>>
Some(v) == <<v>>
OptOf(S) == {Nil} \cup {Some(v) : v \in S}

EmptyMap == [k \in {} |-> ""]

\* m[k] on a Go map: the zero value "" when the key is missing
Index(m, k) == IF k \in DOMAIN m THEN m[k] ELSE ""

\* m[k] = v on a map that was allocated
Put(m, k, v) == [x \in DOMAIN m \cup {k} |-> IF x = k THEN v ELSE m[x]]

\* delete(m, k); a no-op on a nil or empty map
Delete(m, k) == [x \in DOMAIN m \ {k} |-> m[x]]

\* aws.ToString / aws.ToBool (wrapped by StringValue / BoolValue): the zero
\* value for a nil pointer
StringValue(v) == IF v = Nil THEN "" ELSE v[1]
BoolValue(v) == IF v = Nil THEN FALSE ELSE v[1]

\* Unicode simple case folding, on the letters the model uses
Fold(s) ==
    CASE s = "A" -> "a"
      [] s = "B" -> "b"
      [] s = "X" -> "x"
      [] s = "Y" -> "y"
      [] s = "Topic" -> "topic"
      [] OTHER -> s

\* strings.EqualFold
EqualFold(s, t) == Fold(s) = Fold(t)

\* strings.Compare(s, t) != 0
CompareDiffers(s, t) == s # t

\* strconv.ParseBool: the accepted spellings, an error for anything else
ParseBoolTrue == {"1", "t", "T", "TRUE", "true", "True"}
ParseBoolFalse == {"0", "f", "F", "FALSE", "false", "False"}
ParseBool(s) ==
    IF s \in ParseBoolTrue THEN [b |-> TRUE, e |-> FALSE]
    ELSE IF s \in ParseBoolFalse THEN [b |-> FALSE, e |-> FALSE]
    ELSE [b |-> FALSE, e |-> TRUE]

\* strconv.FormatBool
FormatBool(b) == IF b THEN "true" ELSE "false"

-----------------------------------------------------------------------------
(* internal/clients: StrToBoolPtr *)

StrToBoolPtr(s) == IF ParseBool(s).e THEN Nil ELSE Some(ParseBool(s).b)

\* len(p.Tags), p.Tags[k] and range p.Tags treat a nil map as an empty one
TagsOf(p) == IF p.Tags = Nil THEN EmptyMap ELSE p.Tags[1]

-----------------------------------------------------------------------------
(* internal/clients/sns/topicclient.go: IsUpToDate *)

\* IsUpToDate with the flags compared the way GetAttributeDiff compares them:
\* an observed flag that does not parse counts as false
IsUpToDateLenient(p, attributes, tags) ==
    /\ Cardinality(DOMAIN TagsOf(p)) = Len(tags)
    /\ \A i \in 1..Len(tags) :
           /\ tags[i].Key \in DOMAIN TagsOf(p)
           /\ EqualFold(Index(TagsOf(p), tags[i].Key), tags[i].Value)
    /\ EqualFold(StringValue(p.Policy), Index(attributes, TopicPolicy))
    /\ EqualFold(StringValue(p.DisplayName), Index(attributes, TopicDisplayName))
    /\ EqualFold(StringValue(p.DeliveryPolicy), Index(attributes, TopicDeliveryPolicy))
    /\ EqualFold(StringValue(p.KMSMasterKeyID), Index(attributes, TopicKMSMasterKeyID))
    /\ BoolValue(p.FifoTopic) = BoolValue(StrToBoolPtr(Index(attributes, FifoTopic)))
    /\ BoolValue(p.ContentBasedDeduplication)
           = BoolValue(StrToBoolPtr(Index(attributes, FifoTopicContentBasedDeduplication)))

\* IsUpToDate without the comparison of the two tag counts
IsUpToDateNoLen(p, attributes, tags) ==
    /\ \A i \in 1..Len(tags) :
           /\ tags[i].Key \in DOMAIN TagsOf(p)
           /\ EqualFold(Index(TagsOf(p), tags[i].Key), tags[i].Value)
    /\ EqualFold(StringValue(p.Policy), Index(attributes, TopicPolicy))
    /\ EqualFold(StringValue(p.DisplayName), Index(attributes, TopicDisplayName))
    /\ EqualFold(StringValue(p.DeliveryPolicy), Index(attributes, TopicDeliveryPolicy))
    /\ EqualFold(StringValue(p.KMSMasterKeyID), Index(attributes, TopicKMSMasterKeyID))
    /\ ~ParseBool(Index(attributes, FifoTopic)).e
    /\ BoolValue(p.FifoTopic) = ParseBool(Index(attributes, FifoTopic)).b
    /\ ~ParseBool(Index(attributes, FifoTopicContentBasedDeduplication)).e
    /\ BoolValue(p.ContentBasedDeduplication)
           = ParseBool(Index(attributes, FifoTopicContentBasedDeduplication)).b

IsUpToDate(p, attributes, tags) ==
    IF Cardinality(DOMAIN TagsOf(p)) # Len(tags) THEN FALSE
    ELSE IF \E i \in 1..Len(tags) :
                \/ tags[i].Key \notin DOMAIN TagsOf(p)
                \/ ~EqualFold(Index(TagsOf(p), tags[i].Key), tags[i].Value)
         THEN FALSE
    ELSE IF ~EqualFold(StringValue(p.Policy), Index(attributes, TopicPolicy)) THEN FALSE
    ELSE IF ~EqualFold(StringValue(p.DisplayName), Index(attributes, TopicDisplayName)) THEN FALSE
    ELSE IF ~EqualFold(StringValue(p.DeliveryPolicy), Index(attributes, TopicDeliveryPolicy)) THEN FALSE
    ELSE IF ~EqualFold(StringValue(p.KMSMasterKeyID), Index(attributes, TopicKMSMasterKeyID)) THEN FALSE
    ELSE IF \/ ParseBool(Index(attributes, FifoTopic)).e
            \/ BoolValue(p.FifoTopic) # ParseBool(Index(attributes, FifoTopic)).b
         THEN FALSE
    ELSE IF \/ ParseBool(Index(attributes, FifoTopicContentBasedDeduplication)).e
            \/ BoolValue(p.ContentBasedDeduplication)
                   # ParseBool(Index(attributes, FifoTopicContentBasedDeduplication)).b
         THEN FALSE
    ELSE TRUE

-----------------------------------------------------------------------------
(* internal/clients/sns/topicclient.go: GetAttributeDiff *)

\* out[k] = v when cond holds, out unchanged otherwise
PutIf(cond, out, k, v) == IF cond THEN Put(out, k, v) ELSE out

\* GetAttributeDiff not looking at the observed attributes: an entry for
\* every field that is set
GetAttributeDiffAll(p, attributes) ==
    LET o1 == PutIf(p.Policy # Nil, EmptyMap, TopicPolicy, StringValue(p.Policy))
        o2 == PutIf(p.FifoTopic # Nil, o1, FifoTopic, FormatBool(BoolValue(p.FifoTopic)))
        o3 == PutIf(p.DisplayName # Nil, o2, TopicDisplayName, StringValue(p.DisplayName))
        o4 == PutIf(p.KMSMasterKeyID # Nil, o3, TopicKMSMasterKeyID,
                    StringValue(p.KMSMasterKeyID))
        o5 == PutIf(p.DeliveryPolicy # Nil, o4, TopicDeliveryPolicy,
                    StringValue(p.DeliveryPolicy))
        o6 == PutIf(p.ContentBasedDeduplication # Nil, o5,
                    FifoTopicContentBasedDeduplication,
                    FormatBool(BoolValue(p.ContentBasedDeduplication)))
    IN  o6

\* The result is nil when nothing differs; a nil map and an empty map are
\* both the function with the empty domain.
GetAttributeDiff(p, attributes) ==
    LET o1 == PutIf(~EqualFold(StringValue(p.Policy), Index(attributes, TopicPolicy)),
                    EmptyMap, TopicPolicy, StringValue(p.Policy))
        o2 == PutIf(BoolValue(p.FifoTopic)
                        # BoolValue(StrToBoolPtr(Index(attributes, FifoTopic))),
                    o1, FifoTopic, FormatBool(BoolValue(p.FifoTopic)))
        o3 == PutIf(~EqualFold(StringValue(p.DisplayName), Index(attributes, TopicDisplayName)),
                    o2, TopicDisplayName, StringValue(p.DisplayName))
        o4 == PutIf(~EqualFold(StringValue(p.KMSMasterKeyID), Index(attributes, TopicKMSMasterKeyID)),
                    o3, TopicKMSMasterKeyID, StringValue(p.KMSMasterKeyID))
        o5 == PutIf(~EqualFold(StringValue(p.DeliveryPolicy), Index(attributes, TopicDeliveryPolicy)),
                    o4, TopicDeliveryPolicy, StringValue(p.DeliveryPolicy))
        o6 == PutIf(BoolValue(p.ContentBasedDeduplication)
                        # BoolValue(StrToBoolPtr(Index(attributes, FifoTopicContentBasedDeduplication))),
                    o5, FifoTopicContentBasedDeduplication,
                    FormatBool(BoolValue(p.ContentBasedDeduplication)))
    IN  o6

-----------------------------------------------------------------------------
(* internal/clients/sns/topicclient.go: GetDiffTags *)

\* Lines 195-199: managedResourceTags is declared but never allocated, so
\* the first assignment of the copy loop panics (assignment to entry in nil
\* map).  The loop body runs once per desired tag: no desired tag, no panic,
\* and managedResourceTags stays nil.
DeepCopyTags(src) == [panicked |-> DOMAIN src # {}, m |-> EmptyMap]

\* Lines 202-215: one iteration per observed tag, in slice order.
RECURSIVE CompareTags(_, _, _, _)
CompareTags(p, tags, i, acc) ==
    IF i > Len(tags) THEN acc
    ELSE LET v == tags[i]
             ok == v.Key \in DOMAIN TagsOf(p)
             t == Index(TagsOf(p), v.Key)
             r1 == IF ~ok THEN Append(acc.removeTags, v) ELSE acc.removeTags
             differs == CompareDiffers(t, v.Value)
             r2 == IF differs THEN Append(r1, v) ELSE r1
             a2 == IF differs
                   THEN Append(acc.addTags, [Key |-> v.Key, Value |-> t])
                   ELSE acc.addTags
         IN  CompareTags(p, tags, i + 1,
                         [addTags |-> a2, removeTags |-> r2,
                          managedResourceTags |-> Delete(acc.managedResourceTags, v.Key)])

\* Lines 218-223: range over the remaining map; `order` is the iteration
\* order the runtime picked.
RECURSIVE NetNewTags(_, _, _, _)
NetNewTags(m, order, i, addTags) ==
    IF i > Len(order) THEN addTags
    ELSE NetNewTags(m, order, i + 1,
                    Append(addTags, [Key |-> order[i], Value |-> m[order[i]]]))

\* every order in which a range over map m may visit its keys
RangeOrders(m) ==
    {s \in [1..Cardinality(DOMAIN m) -> DOMAIN m] :
        \A i, j \in DOMAIN s : i # j => s[i] # s[j]}

\* the map the net-new loop of GetDiffTags ranges over
RemainingTags(p, tags) ==
    CompareTags(p, tags, 1,
                [addTags |-> <<>>, removeTags |-> <<>>,
                 managedResourceTags |-> DeepCopyTags(TagsOf(p)).m]).managedResourceTags

GetDiffTags(p, tags, order) ==
    IF DeepCopyTags(TagsOf(p)).panicked
    THEN [panicked |-> TRUE, addTags |-> <<>>, removeTags |-> <<>>]
    ELSE LET c == CompareTags(p, tags, 1,
                              [addTags |-> <<>>, removeTags |-> <<>>,
                               managedResourceTags |-> DeepCopyTags(TagsOf(p)).m])
         IN  [panicked |-> FALSE,
              addTags |-> NetNewTags(c.managedResourceTags, order, 1, c.addTags),
              removeTags |-> c.removeTags]

-----------------------------------------------------------------------------
(* internal/clients: LateInitializeStringPtr, LateInitializeBoolPtr *)

\* LateInitializeStringPtr with its two arguments taken the wrong way round
LateInitializeStringPtrFrom(in, from) == IF from # Nil THEN from ELSE in

LateInitializeStringPtr(in, from) == IF in # Nil THEN in ELSE from

LateInitializeBoolPtr(in, from) == IF in # Nil THEN in ELSE from

-----------------------------------------------------------------------------
(* internal/clients/sns/topicclient.go: LateInitialize *)

\* aws.String(s): a pointer to s, never nil
String(s) == Some(s)

\* Lines 51-54: in.Tags[key] = value for each observed tag in slice order, a
\* later tag of the same key replacing an earlier one
TagsToMap(tags) ==
    [k \in {tags[i].Key : i \in DOMAIN tags} |->
        LET last == CHOOSE i \in DOMAIN tags :
                        /\ tags[i].Key = k
                        /\ \A j \in DOMAIN tags : tags[j].Key = k => j <= i
        IN  tags[last].Value]

\* LateInitialize with DeliveryPolicy filled from the Policy field of the
\* parameters instead of the observed DeliveryPolicy attribute
LateInitializeCrossField(p, attributes, tags) ==
    [Region |-> p.Region,
     Tags |-> IF p.Tags = Nil /\ Len(tags) > 0 THEN Some(TagsToMap(tags)) ELSE p.Tags,
     FifoTopic |-> LateInitializeBoolPtr(p.FifoTopic, StrToBoolPtr(Index(attributes, FifoTopic))),
     DeliveryPolicy |-> LateInitializeStringPtr(p.DeliveryPolicy, p.Policy),
     DisplayName |-> LateInitializeStringPtr(p.DisplayName, String(Index(attributes, TopicDisplayName))),
     Policy |-> LateInitializeStringPtr(p.Policy, String(Index(attributes, TopicPolicy))),
     ContentBasedDeduplication |->
        LateInitializeBoolPtr(p.ContentBasedDeduplication,
                              StrToBoolPtr(Index(attributes, FifoTopicContentBasedDeduplication))),
     KMSMasterKeyID |->
        IF p.KMSMasterKeyID = Nil /\ Index(attributes, TopicKMSMasterKeyID) # ""
        THEN String(Index(attributes, TopicKMSMasterKeyID))
        ELSE p.KMSMasterKeyID]

\* LateInitialize without the test that there is an observed tag
LateInitializeNoLen(p, attributes, tags) ==
    [Region |-> p.Region,
     Tags |-> IF p.Tags = Nil THEN Some(TagsToMap(tags)) ELSE p.Tags,
     FifoTopic |-> LateInitializeBoolPtr(p.FifoTopic, StrToBoolPtr(Index(attributes, FifoTopic))),
     DeliveryPolicy |-> LateInitializeStringPtr(p.DeliveryPolicy, String(Index(attributes, TopicDeliveryPolicy))),
     DisplayName |-> LateInitializeStringPtr(p.DisplayName, String(Index(attributes, TopicDisplayName))),
     Policy |-> LateInitializeStringPtr(p.Policy, String(Index(attributes, TopicPolicy))),
     ContentBasedDeduplication |->
        LateInitializeBoolPtr(p.ContentBasedDeduplication,
                              StrToBoolPtr(Index(attributes, FifoTopicContentBasedDeduplication))),
     KMSMasterKeyID |->
        IF p.KMSMasterKeyID = Nil /\ Index(attributes, TopicKMSMasterKeyID) # ""
        THEN String(Index(attributes, TopicKMSMasterKeyID))
        ELSE p.KMSMasterKeyID]

\* The value of *in after the call; in is modified in place.
LateInitialize(p, attributes, tags) ==
    [Region |-> p.Region,
     Tags |-> IF p.Tags = Nil /\ Len(tags) > 0 THEN Some(TagsToMap(tags)) ELSE p.Tags,
     FifoTopic |-> LateInitializeBoolPtr(p.FifoTopic, StrToBoolPtr(Index(attributes, FifoTopic))),
     DeliveryPolicy |-> LateInitializeStringPtr(p.DeliveryPolicy, String(Index(attributes, TopicDeliveryPolicy))),
     DisplayName |-> LateInitializeStringPtr(p.DisplayName, String(Index(attributes, TopicDisplayName))),
     Policy |-> LateInitializeStringPtr(p.Policy, String(Index(attributes, TopicPolicy))),
     ContentBasedDeduplication |->
        LateInitializeBoolPtr(p.ContentBasedDeduplication,
                              StrToBoolPtr(Index(attributes, FifoTopicContentBasedDeduplication))),
     KMSMasterKeyID |->
        IF p.KMSMasterKeyID = Nil /\ Index(attributes, TopicKMSMasterKeyID) # ""
        THEN String(Index(attributes, TopicKMSMasterKeyID))
        ELSE p.KMSMasterKeyID]

-----------------------------------------------------------------------------
(* Inputs: desired parameters, observed attributes, observed tags *)

AttrNames == TextAttrs \cup FlagAttrs

\* <<desired pointer, observed entry>>; an observed Nil is a key missing
\* from the attribute map
TextPairs == OptOf({"", "a", "A"}) \X OptOf({"a", "b"})
FlagPairs == OptOf(BOOLEAN) \X OptOf({"true", "false", "junk"})

\* the in-sync baseline: nothing desired, a standard topic observed
TextBase == <<Nil, Nil>>
FlagBase == <<Nil, Some("false")>>

TagKeys == {"env", "team", "owner"}
TagVals == {"", "x", "X"}
TagRec == [Key : TagKeys, Value : TagVals]

\* p.Tags: nil, or a map with at most MaxTags keys
DesiredTags ==
    {Nil} \cup
    {Some(m) : m \in UNION {[K -> TagVals] :
                    K \in {K \in SUBSET TagKeys : Cardinality(K) <= MaxTags}}}

\* the tags of a topic: at most MaxTags tags, one per key, in any order
ObservedTags ==
    {s \in UNION {[1..n -> TagRec] : n \in 0..MaxTags} :
        \A i, j \in DOMAIN s : i # j => s[i].Key # s[j].Key}

\* the few tag inputs paired with the richly varied attributes
FewTags ==
    { <<Nil, <<>>>>,
      <<Some([k \in {"env"} |-> "x"]), <<[Key |-> "env", Value |-> "X"]>>>>,
      <<Nil, <<[Key |-> "env", Value |-> "x"]>>>> }

\* the few attribute inputs paired with the richly varied tags:
\* <<varied attribute, its pair>>
FewAttrs ==
    { <<TopicPolicy, TextBase>>,
      <<TopicDisplayName, <<Some("a"), Some("b")>>>>,
      <<FifoTopic, <<Nil, Nil>>>> }

TopicParameters(pair, dt) ==
    [DeliveryPolicy |-> pair[TopicDeliveryPolicy][1],
     DisplayName |-> pair[TopicDisplayName][1],
     Policy |-> pair[TopicPolicy][1],
     FifoTopic |-> pair[FifoTopic][1],
     ContentBasedDeduplication |-> pair[FifoTopicContentBasedDeduplication][1],
     KMSMasterKeyID |-> pair[TopicKMSMasterKeyID][1],
     Tags |-> dt,
     Region |-> "r"]

Attributes(pair) ==
    [a \in {a \in AttrNames : pair[a][2] # Nil} |-> pair[a][2][1]]

\* the baseline with the attributes of S replaced by the pairs tf and ff
Varied(S, tf, ff) ==
    [a \in AttrNames |->
        IF a \in TextAttrs
        THEN (IF a \in S THEN tf[a] ELSE TextBase)
        ELSE (IF a \in S THEN ff[a] ELSE FlagBase)]

NoRet ==
    [upToDate |-> FALSE, diff |-> EmptyMap,
     addTags |-> <<>>, removeTags |-> <<>>, panicked |-> FALSE]

InitAttrs ==
    \E S \in {S \in SUBSET AttrNames : Cardinality(S) <= MaxVaried} :
    \E tf \in [S \cap TextAttrs -> TextPairs \ {TextBase}] :
    \E ff \in [S \cap FlagAttrs -> FlagPairs \ {FlagBase}] :
    \E ft \in FewTags :
        /\ forProvider = TopicParameters(Varied(S, tf, ff), ft[1])
        /\ topicAttributes = Attributes(Varied(S, tf, ff))
        /\ topicTags = ft[2]

InitTags ==
    \E fa \in FewAttrs :
    \E dt \in DesiredTags :
    \E ot \in ObservedTags :
        LET pair == [a \in AttrNames |->
                        IF a = fa[1] THEN fa[2]
                        ELSE IF a \in TextAttrs THEN TextBase ELSE FlagBase]
        IN  /\ forProvider = TopicParameters(pair, dt)
            /\ topicAttributes = Attributes(pair)
            /\ topicTags = ot

NoObservation ==
    [TopicArn |-> Nil, SubscriptionsConfirmed |-> Nil, SubscriptionsDeleted |-> Nil,
     SubscriptionsPending |-> Nil, EffectiveDeliveryPolicy |-> Nil]

NilErr == [api |-> FALSE, code |-> "nil", msg |-> ""]

NoOut ==
    [err |-> NilErr, exists |-> FALSE, upToDate |-> FALSE, conn |-> Nil,
     panicked |-> FALSE]

AbsentTopic == [exists |-> FALSE, arn |-> "", attrs |-> EmptyMap, tags |-> <<>>]

\* no Update has run on the topic: whether a SetTopicAttributes call of the
\* latest Update failed, the attributes it had set by then, and the same two
\* of the Update before it
NoUpdate == [failed |-> FALSE, applied |-> {}, prevFailed |-> FALSE, prevApplied |-> {}]

\* no passes run side by side
NoPasses == <<>>

\* no Topic object is being reconciled
CtlIdle ==
    /\ externalName = ""
    /\ condition = ""
    /\ atProvider = NoObservation
    /\ kube = Nil
    /\ aws = AbsentTopic
    /\ calls = <<>>
    /\ handler = "none"
    /\ returned = NoOut
    /\ deleting = "no"
    /\ created = {}
    /\ lastUpdate = NoUpdate

Init ==
    /\ InitAttrs \/ InitTags
    /\ current = Nil
    /\ call = "none"
    /\ ret = NoRet
    /\ CtlIdle
    /\ par = NoPasses

-----------------------------------------------------------------------------
(* Actions: one per function applied to the inputs *)

CallIsUpToDate ==
    /\ call = "none"
    /\ call' = "IsUpToDate"
    /\ ret' = [NoRet EXCEPT !.upToDate = IsUpToDate(forProvider, topicAttributes, topicTags)]
    /\ UNCHANGED <<forProvider, topicAttributes, topicTags, current>>
    /\ UNCHANGED ctlVars
    /\ UNCHANGED par

CallGetAttributeDiff ==
    /\ call = "none"
    /\ call' = "GetAttributeDiff"
    /\ ret' = [NoRet EXCEPT !.diff = GetAttributeDiff(forProvider, topicAttributes)]
    /\ UNCHANGED <<forProvider, topicAttributes, topicTags, current>>
    /\ UNCHANGED ctlVars
    /\ UNCHANGED par

\* GetDiffTags deleting the compared keys from in.Tags itself instead of from
\* a copy
CallGetDiffTagsAliased ==
    /\ call = "none"
    /\ \E order \in RangeOrders(RemainingTags(forProvider, topicTags)) :
         LET r == GetDiffTags(forProvider, topicTags, order)
         IN  ret' = [NoRet EXCEPT !.addTags = r.addTags,
                                  !.removeTags = r.removeTags,
                                  !.panicked = r.panicked]
    /\ call' = "GetDiffTags"
    /\ forProvider' =
          [forProvider EXCEPT !.Tags =
              IF forProvider.Tags = Nil THEN Nil
              ELSE Some([k \in DOMAIN TagsOf(forProvider)
                                  \ {topicTags[i].Key : i \in DOMAIN topicTags} |->
                            TagsOf(forProvider)[k]])]
    /\ UNCHANGED <<topicAttributes, topicTags, current>>
    /\ UNCHANGED ctlVars
    /\ UNCHANGED par

CallGetDiffTags ==
    /\ call = "none"
    /\ \E order \in RangeOrders(RemainingTags(forProvider, topicTags)) :
         LET r == GetDiffTags(forProvider, topicTags, order)
         IN  ret' = [NoRet EXCEPT !.addTags = r.addTags,
                                  !.removeTags = r.removeTags,
                                  !.panicked = r.panicked]
    /\ call' = "GetDiffTags"
    /\ UNCHANGED <<forProvider, topicAttributes, topicTags, current>>
    /\ UNCHANGED ctlVars
    /\ UNCHANGED par

\* as in Observe: the copy is taken, then the parameters are filled in place
CallLateInitialize ==
    /\ call = "none"
    /\ call' = "LateInitialize"
    /\ current' = forProvider
    /\ forProvider' = LateInitialize(forProvider, topicAttributes, topicTags)
    /\ ret' = NoRet
    /\ UNCHANGED <<topicAttributes, topicTags>>
    /\ UNCHANGED ctlVars
    /\ UNCHANGED par

Next ==
    \/ CallIsUpToDate
    \/ CallGetAttributeDiff
    \/ CallGetDiffTags
    \/ CallLateInitialize

Spec == Init /\ [][Next]_vars

-----------------------------------------------------------------------------
(* apis/sns/v1alpha1/topic_types.go: the read-only attribute names *)

TopicSubscriptionConfirmed == "SubscriptionsConfirmed"
TopicSubscriptionDeleted == "SubscriptionsDeleted"
TopicSubscriptionPending == "SubscriptionsPending"
TopicEffectiveDeliveryPolicy == "EffectiveDeliveryPolicy"
TopicArn == "TopicArn"

-----------------------------------------------------------------------------
(* internal/clients: StrToIntPtr, Wrap; crossplane-runtime: resource.Ignore *)

\* strconv.Atoi, on the numerals the model uses
Atoi(s) ==
    CASE s = "0" -> [i |-> 0, e |-> FALSE]
      [] s = "1" -> [i |-> 1, e |-> FALSE]
      [] s = "2" -> [i |-> 2, e |-> FALSE]
      [] s = "-1" -> [i |-> -1, e |-> FALSE]
      [] s = "+2" -> [i |-> 2, e |-> FALSE]
      [] OTHER -> [i |-> 0, e |-> TRUE]

\* StrToIntPtr giving a pointer to 0 for a string that is no number
StrToIntPtrZero(s) == IF Atoi(s).e THEN Some(0) ELSE Some(Atoi(s).i)

StrToIntPtr(s) == IF Atoi(s).e THEN Nil ELSE Some(Atoi(s).i)

\* An error is NilErr or a record: whether a smithy.APIError is found in its
\* chain, the code of that API error, and the message of the outermost wrap.
TopicNotFound == "NotFound"

\* IsNotFound matching the code of another service's not-found error
IsNotFoundException(err) == err.api /\ err.code = "NotFoundException"

IsNotFound(err) == err.api /\ err.code = TopicNotFound

\* resource.Ignore left out: the error passed on as it is
IgnoreNothing(err) == err

\* resource.Ignore(sns.IsNotFound, err)
Ignore(err) == IF IsNotFound(err) THEN NilErr ELSE err

\* Wrap of a nil error is nil
Wrap(err, msg) == IF err = NilErr THEN NilErr ELSE [err EXCEPT !.msg = msg]

errKubeUpdateFailed == "cannot update Topic custom resource"
errCreateFailed == "cannot create Topic"
errDeleteFailed == "cannot delete Topic"
errGetTopicAttributesFailed == "cannot get Topic attributes"
errListTopicTagsFailed == "cannot list Topic tags"

-----------------------------------------------------------------------------
(* internal/clients/sns/topicclient.go: GenerateObservation,
   GetConnectionDetails, GenerateTopicAttributeMap *)

GenerateObservation(attributes) ==
    [TopicArn |-> String(Index(attributes, TopicArn)),
     SubscriptionsConfirmed |-> StrToIntPtr(Index(attributes, TopicSubscriptionConfirmed)),
     SubscriptionsPending |-> StrToIntPtr(Index(attributes, TopicSubscriptionPending)),
     SubscriptionsDeleted |-> StrToIntPtr(Index(attributes, TopicSubscriptionDeleted)),
     EffectiveDeliveryPolicy |-> String(Index(attributes, TopicEffectiveDeliveryPolicy))]

\* the endpoint of the connection details, Nil for no details
GetConnectionDetails(observation) ==
    IF observation.TopicArn = Nil THEN Nil
    ELSE Some(StringValue(observation.TopicArn))

\* GenerateTopicAttributeMap leaving out a field that is set to the zero
\* value: the empty string or false
GenerateTopicAttributeMapNonZero(p) ==
    PutIf(BoolValue(p.ContentBasedDeduplication),
    PutIf(StringValue(p.DeliveryPolicy) # "",
    PutIf(StringValue(p.KMSMasterKeyID) # "",
    PutIf(StringValue(p.DisplayName) # "",
    PutIf(BoolValue(p.FifoTopic),
    PutIf(StringValue(p.Policy) # "", EmptyMap,
          TopicPolicy, StringValue(p.Policy)),
          FifoTopic, FormatBool(BoolValue(p.FifoTopic))),
          TopicDisplayName, StringValue(p.DisplayName)),
          TopicKMSMasterKeyID, StringValue(p.KMSMasterKeyID)),
          TopicDeliveryPolicy, StringValue(p.DeliveryPolicy)),
          FifoTopicContentBasedDeduplication,
          FormatBool(BoolValue(p.ContentBasedDeduplication)))

\* the nil map returned for no entry is the empty map
GenerateTopicAttributeMap(p) ==
    PutIf(p.ContentBasedDeduplication # Nil,
    PutIf(p.DeliveryPolicy # Nil,
    PutIf(p.KMSMasterKeyID # Nil,
    PutIf(p.DisplayName # Nil,
    PutIf(p.FifoTopic # Nil,
    PutIf(p.Policy # Nil, EmptyMap,
          TopicPolicy, StringValue(p.Policy)),
          FifoTopic, FormatBool(BoolValue(p.FifoTopic))),
          TopicDisplayName, StringValue(p.DisplayName)),
          TopicKMSMasterKeyID, StringValue(p.KMSMasterKeyID)),
          TopicDeliveryPolicy, StringValue(p.DeliveryPolicy)),
          FifoTopicContentBasedDeduplication,
          FormatBool(BoolValue(p.ContentBasedDeduplication)))

-----------------------------------------------------------------------------
(* The SNS service behind sns.Client, and the store behind c.kube *)

\* cr.GetName()
crName == "topic"

\* the ARNs CreateTopic may answer with
Arns == {"arn1", "arn2"}

\* the errors a client call may return besides NotFound
ErrNotFound == [api |-> TRUE, code |-> TopicNotFound, msg |-> ""]
ErrThrottled == [api |-> TRUE, code |-> "Throttling", msg |-> ""]
ErrTimeout == [api |-> FALSE, code |-> "timeout", msg |-> ""]
TransportErrors == {ErrThrottled, ErrTimeout}

\* at most one call of a handler fails for a reason of the transport:
\* the at-th of the n calls the handler can make
NoFault == [at |-> 0, err |-> NilErr]
Faults(n) == {NoFault} \cup [at : 1..n, err : TransportErrors]
ErrAt(fault, i) == IF fault.at = i THEN fault.err ELSE NilErr

\* ListTagsForResource not finding the topic that GetTopicAttributes has just
\* found
ListNotFound == [at |-> 2, err |-> ErrNotFound]

\* the topic named id exists
Found(id) == aws.exists /\ aws.arn = id

\* the error of a call about topic id, the i-th call of its handler
Answer(fault, i, id) ==
    IF ErrAt(fault, i) # NilErr THEN ErrAt(fault, i)
    ELSE IF Found(id) THEN NilErr ELSE ErrNotFound

\* what the service reports of itself for the topic arn
SystemAttributes(arn) ==
    [k \in {TopicArn, TopicSubscriptionConfirmed, TopicSubscriptionPending,
            TopicSubscriptionDeleted, TopicEffectiveDeliveryPolicy} |->
        CASE k = TopicArn -> arn
          [] k = TopicSubscriptionConfirmed -> "2"
          [] k = TopicSubscriptionPending -> "0"
          [] k = TopicSubscriptionDeleted -> "1"
          [] k = TopicEffectiveDeliveryPolicy -> "a"]

Merge(base, over) ==
    [k \in DOMAIN base \cup DOMAIN over |->
        IF k \in DOMAIN over THEN over[k] ELSE base[k]]

\* the attributes the service gives a new topic when the request has none
ServiceDefaults ==
    { EmptyMap,
      [k \in {TopicPolicy, FifoTopic, FifoTopicContentBasedDeduplication} |->
          IF k = TopicPolicy THEN "a" ELSE "false"] }

\* one entry of the log of client calls
Request(op, id, name, value, attributes, tags, err) ==
    [op |-> op, id |-> id, name |-> name, value |-> value,
     attributes |-> attributes, tags |-> tags, err |-> err]

\* UntagResource and TagResource on the tag list of the topic
Untag(tags, keys) == SelectSeq(tags, LAMBDA t : t.Key \notin keys)

RECURSIVE TagAll(_, _, _)
TagAll(tags, addTags, i) ==
    IF i > Len(addTags) THEN tags
    ELSE TagAll(Append(Untag(tags, {addTags[i].Key}), addTags[i]), addTags, i + 1)

\* the []types.Tag built from a map, visited in the given order
MapToTags(m, order) ==
    [i \in 1..Len(order) |-> [Key |-> order[i], Value |-> m[order[i]]]]

-----------------------------------------------------------------------------
(* The handlers of `external`, run by the managed reconciler that SetupTopic
   builds: Observe first, then Create, Update or Delete as Observe reported *)

\* Observe setting the condition before it looks at the errors
ObserveFailsAvailable(log, err, attributes) ==
    /\ calls' = log
    /\ returned' = [NoOut EXCEPT !.err = err]
    /\ forProvider' = kube
    /\ topicAttributes' = attributes
    /\ topicTags' = <<>>
    /\ current' = Nil
    /\ condition' = IF err # NilErr THEN "Available" ELSE condition
    /\ UNCHANGED <<kube, atProvider>>

\* an ExternalObservation{} returned with the error err
ObserveFails(log, err, attributes) ==
    /\ calls' = log
    /\ returned' = [NoOut EXCEPT !.err = err]
    /\ forProvider' = kube
    /\ topicAttributes' = attributes
    /\ topicTags' = <<>>
    /\ current' = Nil
    /\ UNCHANGED <<kube, condition, atProvider>>

\* Observe not looking at the error of kube.Update
ExternalObserveUnchecked ==
    /\ deleting # "gone"
    /\ handler' = "Observe"
    /\ \E fault \in Faults(3) \cup {ListNotFound} :
         LET id == externalName
             getErr == Answer(fault, 1, id)
             listErr == Answer(fault, 2, id)
             updateErr == ErrAt(fault, 3)
             get == Request("GetTopicAttributes", id, "", "", EmptyMap, <<>>, getErr)
             list == Request("ListTagsForResource", id, "", "", EmptyMap, <<>>, listErr)
             update == Request("kube.Update", crName, "", "", EmptyMap, <<>>, updateErr)
             late == LateInitialize(kube, aws.attrs, aws.tags)
             log == IF late # kube THEN <<get, list, update>> ELSE <<get, list>>
         IN  IF EqualFold(externalName, crName)
             THEN ObserveFails(<<>>, NilErr, EmptyMap)
             ELSE IF getErr # NilErr
             THEN ObserveFails(<<get>>, Wrap(Ignore(getErr), errGetTopicAttributesFailed),
                               EmptyMap)
             ELSE IF listErr # NilErr
             THEN ObserveFails(<<get, list>>, Wrap(listErr, errListTopicTagsFailed),
                               aws.attrs)
             ELSE /\ calls' = log
                  /\ topicAttributes' = aws.attrs
                  /\ topicTags' = aws.tags
                  /\ current' = Some(kube)
                  /\ forProvider' = late
                  /\ IF late # kube /\ updateErr # NilErr
                     THEN /\ UNCHANGED kube
                          /\ condition' = "Available"
                          /\ atProvider' = GenerateObservation(aws.attrs)
                          /\ returned' =
                                [NoOut EXCEPT
                                    !.exists = TRUE,
                                    !.upToDate = IsUpToDate(late, aws.attrs, aws.tags),
                                    !.conn = GetConnectionDetails(GenerateObservation(aws.attrs))]
                     ELSE /\ kube' = late
                          /\ condition' = "Available"
                          /\ atProvider' = GenerateObservation(aws.attrs)
                          /\ returned' =
                                [NoOut EXCEPT
                                    !.exists = TRUE,
                                    !.upToDate = IsUpToDate(late, aws.attrs, aws.tags),
                                    !.conn = GetConnectionDetails(GenerateObservation(aws.attrs))]
    /\ UNCHANGED <<externalName, aws, deleting, created, lastUpdate, call, ret>>
    /\ UNCHANGED par

\* Observe computing the verdict on the parameters as they were read
ExternalObserveStale ==
    /\ deleting # "gone"
    /\ handler' = "Observe"
    /\ \E fault \in Faults(3) \cup {ListNotFound} :
         LET id == externalName
             getErr == Answer(fault, 1, id)
             listErr == Answer(fault, 2, id)
             updateErr == ErrAt(fault, 3)
             get == Request("GetTopicAttributes", id, "", "", EmptyMap, <<>>, getErr)
             list == Request("ListTagsForResource", id, "", "", EmptyMap, <<>>, listErr)
             update == Request("kube.Update", crName, "", "", EmptyMap, <<>>, updateErr)
             late == LateInitialize(kube, aws.attrs, aws.tags)
             log == IF late # kube THEN <<get, list, update>> ELSE <<get, list>>
         IN  IF EqualFold(externalName, crName)
             THEN ObserveFails(<<>>, NilErr, EmptyMap)
             ELSE IF getErr # NilErr
             THEN ObserveFails(<<get>>, Wrap(Ignore(getErr), errGetTopicAttributesFailed),
                               EmptyMap)
             ELSE IF listErr # NilErr
             THEN ObserveFails(<<get, list>>, Wrap(listErr, errListTopicTagsFailed),
                               aws.attrs)
             ELSE /\ calls' = log
                  /\ topicAttributes' = aws.attrs
                  /\ topicTags' = aws.tags
                  /\ current' = Some(kube)
                  /\ forProvider' = late
                  /\ IF late # kube /\ updateErr # NilErr
                     THEN /\ returned' =
                                [NoOut EXCEPT !.err = [updateErr EXCEPT !.msg = errKubeUpdateFailed]]
                          /\ UNCHANGED <<kube, condition, atProvider>>
                     ELSE /\ kube' = late
                          /\ condition' = "Available"
                          /\ atProvider' = GenerateObservation(aws.attrs)
                          /\ returned' =
                                [NoOut EXCEPT
                                    !.exists = TRUE,
                                    !.upToDate = IsUpToDate(kube, aws.attrs, aws.tags),
                                    !.conn = GetConnectionDetails(GenerateObservation(aws.attrs))]
    /\ UNCHANGED <<externalName, aws, deleting, created, lastUpdate, call, ret>>
    /\ UNCHANGED par

ExternalObserve ==
    /\ deleting # "gone"
    /\ handler' = "Observe"
    /\ \E fault \in Faults(3) \cup {ListNotFound} :
         LET id == externalName
             getErr == Answer(fault, 1, id)
             listErr == Answer(fault, 2, id)
             updateErr == ErrAt(fault, 3)
             get == Request("GetTopicAttributes", id, "", "", EmptyMap, <<>>, getErr)
             list == Request("ListTagsForResource", id, "", "", EmptyMap, <<>>, listErr)
             update == Request("kube.Update", crName, "", "", EmptyMap, <<>>, updateErr)
             late == LateInitialize(kube, aws.attrs, aws.tags)
             log == IF late # kube THEN <<get, list, update>> ELSE <<get, list>>
         IN  IF EqualFold(externalName, crName)
             THEN ObserveFails(<<>>, NilErr, EmptyMap)
             ELSE IF getErr # NilErr
             THEN ObserveFails(<<get>>, Wrap(Ignore(getErr), errGetTopicAttributesFailed),
                               EmptyMap)
             ELSE IF listErr # NilErr
             THEN ObserveFails(<<get, list>>, Wrap(listErr, errListTopicTagsFailed),
                               aws.attrs)
             ELSE /\ calls' = log
                  /\ topicAttributes' = aws.attrs
                  /\ topicTags' = aws.tags
                  /\ current' = Some(kube)
                  /\ forProvider' = late
                  /\ IF late # kube /\ updateErr # NilErr
                     THEN /\ returned' =
                                [NoOut EXCEPT !.err = [updateErr EXCEPT !.msg = errKubeUpdateFailed]]
                          /\ UNCHANGED <<kube, condition, atProvider>>
                     ELSE /\ kube' = late
                          /\ condition' = "Available"
                          /\ atProvider' = GenerateObservation(aws.attrs)
                          /\ returned' =
                                [NoOut EXCEPT
                                    !.exists = TRUE,
                                    !.upToDate = IsUpToDate(late, aws.attrs, aws.tags),
                                    !.conn = GetConnectionDetails(GenerateObservation(aws.attrs))]
    /\ UNCHANGED <<externalName, aws, deleting, created, lastUpdate, call, ret>>
    /\ UNCHANGED par

\* Create with the external name set to the name sent instead of the ARN
\* the service answered with
ExternalCreateNamed ==
    /\ handler = "Observe"
    /\ returned.err = NilErr
    /\ ~returned.exists
    /\ deleting = "no"
    /\ handler' = "Create"
    /\ condition' = "Creating"
    /\ \E fault \in Faults(1) :
       \E arn \in IF aws.exists THEN {aws.arn} ELSE Arns :
       \E defaults \in ServiceDefaults :
       \E order \in RangeOrders(TagsOf(forProvider)) :
         LET name == IF externalName = "" THEN crName ELSE externalName
             t == MapToTags(TagsOf(forProvider), order)
             attributes == GenerateTopicAttributeMap(forProvider)
             err == ErrAt(fault, 1)
         IN  /\ calls' = <<Request("CreateTopic", "", name, "", attributes, t, err)>>
             /\ IF err # NilErr
                THEN /\ returned' = [NoOut EXCEPT !.err = Wrap(err, errCreateFailed)]
                     /\ UNCHANGED <<externalName, aws, created>>
                ELSE /\ externalName' = name
                     /\ aws' = IF aws.exists THEN aws
                               ELSE [exists |-> TRUE, arn |-> arn,
                                     attrs |-> Merge(Merge(SystemAttributes(arn), defaults),
                                                     attributes),
                                     tags |-> t]
                     /\ created' = created \cup {arn}
                     /\ returned' = [NoOut EXCEPT !.conn = Some(arn)]
    /\ UNCHANGED <<forProvider, kube, topicAttributes, topicTags, current,
                   atProvider, deleting, lastUpdate, call, ret>>
    /\ UNCHANGED par

\* Create filling the parameters from the attributes of the topic it made
ExternalCreateLateInitializes ==
    /\ handler = "Observe"
    /\ returned.err = NilErr
    /\ ~returned.exists
    /\ deleting = "no"
    /\ handler' = "Create"
    /\ condition' = "Creating"
    /\ \E fault \in Faults(1) :
       \E arn \in IF aws.exists THEN {aws.arn} ELSE Arns :
       \E defaults \in ServiceDefaults :
       \E order \in RangeOrders(TagsOf(forProvider)) :
         LET name == IF externalName = "" THEN crName ELSE externalName
             t == MapToTags(TagsOf(forProvider), order)
             attributes == GenerateTopicAttributeMap(forProvider)
             err == ErrAt(fault, 1)
         IN  /\ calls' = <<Request("CreateTopic", "", name, "", attributes, t, err)>>
             /\ IF err # NilErr
                THEN /\ returned' = [NoOut EXCEPT !.err = Wrap(err, errCreateFailed)]
                     /\ UNCHANGED <<externalName, aws, created, forProvider>>
                ELSE /\ externalName' = arn
                     /\ forProvider' =
                           LateInitialize(forProvider,
                                          Merge(Merge(SystemAttributes(arn), defaults),
                                                attributes), t)
                     /\ aws' = IF aws.exists THEN aws
                               ELSE [exists |-> TRUE, arn |-> arn,
                                     attrs |-> Merge(Merge(SystemAttributes(arn), defaults),
                                                     attributes),
                                     tags |-> t]
                     /\ created' = created \cup {arn}
                     /\ returned' = [NoOut EXCEPT !.conn = Some(arn)]
    /\ UNCHANGED <<kube, topicAttributes, topicTags, current,
                   atProvider, deleting, lastUpdate, call, ret>>
    /\ UNCHANGED par

ExternalCreate ==
    /\ handler = "Observe"
    /\ returned.err = NilErr
    /\ ~returned.exists
    /\ deleting = "no"
    /\ handler' = "Create"
    /\ condition' = "Creating"
    /\ \E fault \in Faults(1) :
       \E arn \in IF aws.exists THEN {aws.arn} ELSE Arns :
       \E defaults \in ServiceDefaults :
       \E order \in RangeOrders(TagsOf(forProvider)) :
         LET name == IF externalName = "" THEN crName ELSE externalName
             t == MapToTags(TagsOf(forProvider), order)
             attributes == GenerateTopicAttributeMap(forProvider)
             err == ErrAt(fault, 1)
         IN  /\ calls' = <<Request("CreateTopic", "", name, "", attributes, t, err)>>
             /\ IF err # NilErr
                THEN /\ returned' = [NoOut EXCEPT !.err = Wrap(err, errCreateFailed)]
                     /\ UNCHANGED <<externalName, aws, created>>
                ELSE /\ externalName' = arn
                     /\ aws' = IF aws.exists THEN aws
                               ELSE [exists |-> TRUE, arn |-> arn,
                                     attrs |-> Merge(Merge(SystemAttributes(arn), defaults),
                                                     attributes),
                                     tags |-> t]
                     /\ created' = created \cup {arn}
                     /\ returned' = [NoOut EXCEPT !.conn = Some(arn)]
    /\ UNCHANGED <<forProvider, kube, topicAttributes, topicTags, current,
                   atProvider, deleting, lastUpdate, call, ret>>
    /\ UNCHANGED par

\* Delete returning the error of DeleteTopic whatever it is
ExternalDeleteStrict ==
    /\ handler = "Observe"
    /\ returned.err = NilErr
    /\ returned.exists
    /\ deleting = "requested"
    /\ handler' = "Delete"
    /\ condition' = "Deleting"
    /\ \E fault \in Faults(1) :
         LET err == Answer(fault, 1, externalName)
         IN  /\ calls' = <<Request("DeleteTopic", externalName, "", "", EmptyMap, <<>>, err)>>
             /\ returned' = [NoOut EXCEPT !.err = Wrap(err, errDeleteFailed)]
             /\ aws' = IF err = NilErr THEN AbsentTopic ELSE aws
    /\ UNCHANGED <<forProvider, kube, topicAttributes, topicTags, current,
                   externalName, atProvider, deleting, created, lastUpdate, call, ret>>
    /\ UNCHANGED par

ExternalDelete ==
    /\ handler = "Observe"
    /\ returned.err = NilErr
    /\ returned.exists
    /\ deleting = "requested"
    /\ handler' = "Delete"
    /\ condition' = "Deleting"
    /\ \E fault \in Faults(1) :
         LET err == Answer(fault, 1, externalName)
         IN  /\ calls' = <<Request("DeleteTopic", externalName, "", "", EmptyMap, <<>>, err)>>
             /\ returned' = [NoOut EXCEPT !.err = Wrap(Ignore(err), errDeleteFailed)]
             /\ aws' = IF err = NilErr THEN AbsentTopic ELSE aws
    /\ UNCHANGED <<forProvider, kube, topicAttributes, topicTags, current,
                   externalName, atProvider, deleting, created, lastUpdate, call, ret>>
    /\ UNCHANGED par

\* an ExternalUpdate{} returned with err after the calls of log, which left
\* the topic with attrs and tags
UpdateReturns(log, err, panicked, attrs, tags, update) ==
    /\ calls' = log
    /\ returned' = [NoOut EXCEPT !.err = err, !.panicked = panicked,
                                 !.conn = IF err = NilErr /\ ~panicked
                                          THEN Some(externalName) ELSE Nil]
    /\ aws' = [aws EXCEPT !.attrs = attrs, !.tags = tags]
    /\ lastUpdate' = [failed |-> update.failed, applied |-> update.applied,
                      prevFailed |-> lastUpdate.failed,
                      prevApplied |-> lastUpdate.applied]

\* the SetTopicAttributes loop going on to the next attribute after a call
\* failed
SetCallsAll(id, diff, order, stop, err) ==
    [i \in 1..Len(order) |->
        Request("SetTopicAttributes", id, order[i], diff[order[i]], EmptyMap, <<>>,
                IF i = stop THEN err ELSE NilErr)]

\* the SetTopicAttributes loop leaving out the last attribute
SetCallsButLast(id, diff, order, stop, err) ==
    [i \in 1..(IF stop > 0 THEN stop ELSE Len(order) - 1) |->
        Request("SetTopicAttributes", id, order[i], diff[order[i]], EmptyMap, <<>>,
                IF i = stop THEN err ELSE NilErr)]

\* the SetTopicAttributes calls of the range over diff in the given order,
\* up to and including the stop-th when stop > 0
SetCalls(id, diff, order, stop, err) ==
    [i \in 1..(IF stop > 0 THEN stop ELSE Len(order)) |->
        Request("SetTopicAttributes", id, order[i], diff[order[i]], EmptyMap, <<>>,
                IF i = stop THEN err ELSE NilErr)]

\* Update going on to TagResource after UntagResource failed
ExternalUpdateTagsAnyway ==
    /\ handler = "Observe"
    /\ returned.err = NilErr
    /\ returned.exists
    /\ ~returned.upToDate
    /\ deleting = "no"
    /\ handler' = "Update"
    /\ \E fault \in Faults(Cardinality(AttrNames) + 4) :
         LET id == externalName
             getErr == Answer(fault, 1, id)
             get == Request("GetTopicAttributes", id, "", "", EmptyMap, <<>>, getErr)
             diffAttributes == GetAttributeDiff(forProvider, aws.attrs)
         IN  IF getErr # NilErr
             THEN UpdateReturns(<<get>>, Wrap(Ignore(getErr), errGetTopicAttributesFailed),
                                FALSE, aws.attrs, aws.tags, NoUpdate)
             ELSE
             \E order \in RangeOrders(diffAttributes) :
             \E tagOrder \in RangeOrders(RemainingTags(forProvider, aws.tags)) :
               LET n == Len(order)
                   stop == IF fault.at \in 2..(n + 1) THEN fault.at - 1 ELSE 0
                   applied == {order[i] : i \in 1..(IF stop > 0 THEN stop - 1 ELSE n)}
                   sets == SetCalls(id, diffAttributes, order, stop, fault.err)
                   attrs == Merge(aws.attrs, [k \in applied |-> diffAttributes[k]])
                   listErr == ErrAt(fault, n + 2)
                   list == Request("ListTagsForResource", id, "", "", EmptyMap, <<>>, listErr)
                   d == GetDiffTags(forProvider, aws.tags, tagOrder)
                   untagAt == n + 3
                   tagAt == IF d.removeTags # <<>> THEN n + 4 ELSE n + 3
                   untagErr == ErrAt(fault, untagAt)
                   tagErr == ErrAt(fault, tagAt)
                   untag == Request("UntagResource", id, "", "", EmptyMap, d.removeTags, untagErr)
                   tag == Request("TagResource", id, "", "", EmptyMap, d.addTags, tagErr)
                   untagged == IF d.removeTags # <<>>
                               THEN Untag(aws.tags, {d.removeTags[i].Key : i \in DOMAIN d.removeTags})
                               ELSE aws.tags
                   head == <<get>> \o sets \o <<list>>
                   mid == IF d.removeTags # <<>> THEN head \o <<untag>> ELSE head
                   all == IF d.addTags # <<>> THEN mid \o <<tag>> ELSE mid
                   done == [NoUpdate EXCEPT !.applied = applied]
               IN  IF stop > 0
                   THEN UpdateReturns(<<get>> \o sets, Wrap(fault.err, errKubeUpdateFailed),
                                      FALSE, attrs, aws.tags,
                                      [NoUpdate EXCEPT !.failed = TRUE, !.applied = applied])
                   ELSE IF listErr # NilErr
                   THEN UpdateReturns(head, Wrap(listErr, errListTopicTagsFailed),
                                      FALSE, attrs, aws.tags, done)
                   ELSE IF d.panicked
                   THEN UpdateReturns(head, NilErr, TRUE, attrs, aws.tags, done)
                   ELSE IF d.removeTags # <<>> /\ untagErr # NilErr
                   THEN UpdateReturns(all, Wrap(untagErr, errKubeUpdateFailed),
                                      FALSE, attrs,
                                      IF d.addTags # <<>>
                                      THEN TagAll(aws.tags, d.addTags, 1) ELSE aws.tags,
                                      done)
                   ELSE IF d.addTags # <<>> /\ tagErr # NilErr
                   THEN UpdateReturns(all, Wrap(tagErr, errKubeUpdateFailed),
                                      FALSE, attrs, untagged, done)
                   ELSE UpdateReturns(all, NilErr, FALSE, attrs,
                                      IF d.addTags # <<>>
                                      THEN TagAll(untagged, d.addTags, 1) ELSE untagged,
                                      done)
    /\ UNCHANGED <<forProvider, kube, topicAttributes, topicTags, current,
                   externalName, condition, atProvider, deleting, created, call, ret>>
    /\ UNCHANGED par

ExternalUpdate ==
    /\ handler = "Observe"
    /\ returned.err = NilErr
    /\ returned.exists
    /\ ~returned.upToDate
    /\ deleting = "no"
    /\ handler' = "Update"
    /\ \E fault \in Faults(Cardinality(AttrNames) + 4) :
         LET id == externalName
             getErr == Answer(fault, 1, id)
             get == Request("GetTopicAttributes", id, "", "", EmptyMap, <<>>, getErr)
             diffAttributes == GetAttributeDiff(forProvider, aws.attrs)
         IN  IF getErr # NilErr
             THEN UpdateReturns(<<get>>, Wrap(Ignore(getErr), errGetTopicAttributesFailed),
                                FALSE, aws.attrs, aws.tags, NoUpdate)
             ELSE
             \E order \in RangeOrders(diffAttributes) :
             \E tagOrder \in RangeOrders(RemainingTags(forProvider, aws.tags)) :
               LET n == Len(order)
                   stop == IF fault.at \in 2..(n + 1) THEN fault.at - 1 ELSE 0
                   applied == {order[i] : i \in 1..(IF stop > 0 THEN stop - 1 ELSE n)}
                   sets == SetCalls(id, diffAttributes, order, stop, fault.err)
                   attrs == Merge(aws.attrs, [k \in applied |-> diffAttributes[k]])
                   listErr == ErrAt(fault, n + 2)
                   list == Request("ListTagsForResource", id, "", "", EmptyMap, <<>>, listErr)
                   d == GetDiffTags(forProvider, aws.tags, tagOrder)
                   untagAt == n + 3
                   tagAt == IF d.removeTags # <<>> THEN n + 4 ELSE n + 3
                   untagErr == ErrAt(fault, untagAt)
                   tagErr == ErrAt(fault, tagAt)
                   untag == Request("UntagResource", id, "", "", EmptyMap, d.removeTags, untagErr)
                   tag == Request("TagResource", id, "", "", EmptyMap, d.addTags, tagErr)
                   untagged == IF d.removeTags # <<>>
                               THEN Untag(aws.tags, {d.removeTags[i].Key : i \in DOMAIN d.removeTags})
                               ELSE aws.tags
                   head == <<get>> \o sets \o <<list>>
                   mid == IF d.removeTags # <<>> THEN head \o <<untag>> ELSE head
                   all == IF d.addTags # <<>> THEN mid \o <<tag>> ELSE mid
                   done == [NoUpdate EXCEPT !.applied = applied]
               IN  IF stop > 0
                   THEN UpdateReturns(<<get>> \o sets, Wrap(fault.err, errKubeUpdateFailed),
                                      FALSE, attrs, aws.tags,
                                      [NoUpdate EXCEPT !.failed = TRUE, !.applied = applied])
                   ELSE IF listErr # NilErr
                   THEN UpdateReturns(head, Wrap(listErr, errListTopicTagsFailed),
                                      FALSE, attrs, aws.tags, done)
                   ELSE IF d.panicked
                   THEN UpdateReturns(head, NilErr, TRUE, attrs, aws.tags, done)
                   ELSE IF d.removeTags # <<>> /\ untagErr # NilErr
                   THEN UpdateReturns(mid, Wrap(untagErr, errKubeUpdateFailed),
                                      FALSE, attrs, aws.tags, done)
                   ELSE IF d.addTags # <<>> /\ tagErr # NilErr
                   THEN UpdateReturns(all, Wrap(tagErr, errKubeUpdateFailed),
                                      FALSE, attrs, untagged, done)
                   ELSE UpdateReturns(all, NilErr, FALSE, attrs,
                                      IF d.addTags # <<>>
                                      THEN TagAll(untagged, d.addTags, 1) ELSE untagged,
                                      done)
    /\ UNCHANGED <<forProvider, kube, topicAttributes, topicTags, current,
                   externalName, condition, atProvider, deleting, created, call, ret>>
    /\ UNCHANGED par

\* the reconciler removes the finalizer of a Topic whose deletion was
\* requested once Observe reports that the topic does not exist
RemoveFinalizer ==
    /\ handler = "Observe"
    /\ returned.err = NilErr
    /\ ~returned.exists
    /\ deleting = "requested"
    /\ deleting' = "gone"
    /\ handler' = "none"
    /\ UNCHANGED <<pureVars, externalName, condition, atProvider, kube, aws, calls,
                   returned, created, lastUpdate>>
    /\ UNCHANGED par

\* the user asks for the deletion of the Topic
RequestDelete ==
    /\ deleting = "no"
    /\ deleting' = "requested"
    /\ UNCHANGED <<pureVars, externalName, condition, atProvider, kube, aws, calls,
                   handler, returned, created, lastUpdate>>
    /\ UNCHANGED par

\* the topic is deleted by someone else
TopicRemoved ==
    /\ aws.exists
    /\ deleting # "gone"
    /\ aws' = AbsentTopic
    /\ lastUpdate' = NoUpdate
    /\ UNCHANGED <<pureVars, externalName, condition, atProvider, kube, calls,
                   handler, returned, deleting, created>>
    /\ UNCHANGED par

-----------------------------------------------------------------------------
(* The Topic objects and topics the controller starts from *)

Unset ==
    [DeliveryPolicy |-> Nil, DisplayName |-> Nil, Policy |-> Nil, FifoTopic |-> Nil,
     ContentBasedDeduplication |-> Nil, KMSMasterKeyID |-> Nil, Tags |-> Nil,
     Region |-> "r"]

CtlParameters ==
    { Unset,
      [Unset EXCEPT !.DisplayName = Some("a"), !.FifoTopic = Some(TRUE),
                    !.Policy = Some("A")],
      [Unset EXCEPT !.DisplayName = Some("a"),
                    !.Tags = Some([k \in {"env"} |-> "x"])],
      [Unset EXCEPT !.DeliveryPolicy = Some(""), !.DisplayName = Some(""),
                    !.Policy = Some(""), !.KMSMasterKeyID = Some("a"),
                    !.FifoTopic = Some(FALSE),
                    !.ContentBasedDeduplication = Some(FALSE),
                    !.Tags = Some(EmptyMap)] }

CtlAttributes ==
    { EmptyMap,
      [k \in {TopicPolicy, TopicDisplayName, FifoTopic,
              FifoTopicContentBasedDeduplication} |->
          CASE k = FifoTopic -> "true"
            [] k = FifoTopicContentBasedDeduplication -> "false"
            [] OTHER -> "a"],
      [k \in {TopicPolicy, TopicDisplayName, TopicKMSMasterKeyID, FifoTopic,
              FifoTopicContentBasedDeduplication} |->
          IF k \in FlagAttrs THEN "false" ELSE "b"] }

CtlTags ==
    { <<>>,
      <<[Key |-> "env", Value |-> "x"]>>,
      <<[Key |-> "env", Value |-> "X"], [Key |-> "team", Value |-> "x"]>> }

CtlTopics ==
    {AbsentTopic} \cup
    {[exists |-> TRUE, arn |-> "arn1",
      attrs |-> Merge(SystemAttributes("arn1"), a), tags |-> t] :
        a \in CtlAttributes, t \in CtlTags}

InitCtl ==
    /\ kube \in CtlParameters
    /\ forProvider = kube
    /\ externalName \in {"", crName, "Topic", "arn1"}
    /\ aws \in CtlTopics
    /\ topicAttributes = EmptyMap
    /\ topicTags = <<>>
    /\ current = Nil
    /\ call = "none"
    /\ ret = NoRet
    /\ condition = ""
    /\ atProvider = NoObservation
    /\ calls = <<>>
    /\ handler = "none"
    /\ returned = NoOut
    /\ deleting = "no"
    /\ created = {}
    /\ lastUpdate = NoUpdate
    /\ par = NoPasses

NextCtl ==
    \/ ExternalObserve
    \/ ExternalCreate
    \/ ExternalUpdate
    \/ ExternalDelete
    \/ RemoveFinalizer
    \/ RequestDelete
    \/ TopicRemoved

SpecCtl == InitCtl /\ [][NextCtl]_vars

-----------------------------------------------------------------------------
(* GenerateObservation applied to attribute maps as the service may send them *)

CounterNames ==
    {TopicSubscriptionConfirmed, TopicSubscriptionPending, TopicSubscriptionDeleted}

\* the value of a counter attribute, Nil for an attribute that is missing
CounterValues == OptOf({"0", "2", "-1", "+2", "junk", ""})

InitObs ==
    /\ \E c \in [CounterNames -> CounterValues] :
       \E arn \in OptOf({"arn1"}) :
       \E policy \in OptOf({"", "a"}) :
         LET v == [k \in CounterNames \cup {TopicArn, TopicEffectiveDeliveryPolicy} |->
                     IF k = TopicArn THEN arn
                     ELSE IF k = TopicEffectiveDeliveryPolicy THEN policy ELSE c[k]]
         IN  topicAttributes = [k \in {k \in DOMAIN v : v[k] # Nil} |-> v[k][1]]
    /\ forProvider = Unset
    /\ topicTags = <<>>
    /\ current = Nil
    /\ call = "none"
    /\ ret = NoRet
    /\ CtlIdle
    /\ par = NoPasses

CallGenerateObservation ==
    /\ call = "none"
    /\ call' = "GenerateObservation"
    /\ atProvider' = GenerateObservation(topicAttributes)
    /\ UNCHANGED <<forProvider, topicAttributes, topicTags, current, ret, externalName,
                   condition, kube, aws, calls, handler, returned, deleting, created,
                   lastUpdate>>
    /\ UNCHANGED par

NextObs == CallGenerateObservation

SpecObs == InitObs /\ [][NextObs]_vars

-----------------------------------------------------------------------------
(* Passes for two Topics side by side: Observe, then Update when Observe
   reports a difference, one client call at a step.  Every call succeeds. *)

Resources == {"A", "B"}

\* the external name of each Topic: the ARN of its own topic
NameOf(r) == IF r = "A" THEN "arn1" ELSE "arn2"

\* the local variables of a handler call that is not the caller's own: all
\* handler calls sharing one set of variables
FrameShared(r) == "A"

\* the local variables of a handler call belong to the call: Connect makes
\* a new `external` for each Topic and the handlers keep nothing outside
\* their locals
Frame(r) == r

\* the orders in which the range over the attribute difference is taken
ParOrders ==
    { <<TopicPolicy, FifoTopic, TopicDisplayName, TopicKMSMasterKeyID,
        TopicDeliveryPolicy, FifoTopicContentBasedDeduplication>>,
      <<FifoTopicContentBasedDeduplication, TopicDeliveryPolicy, TopicKMSMasterKeyID,
        TopicDisplayName, FifoTopic, TopicPolicy>> }

\* the topics the two passes start from: attributes and tags
ParTopics ==
    { [attrs |-> EmptyMap, tags |-> <<>>],
      [attrs |-> [k \in {TopicPolicy, TopicDisplayName, FifoTopic,
                         FifoTopicContentBasedDeduplication} |->
                     CASE k = FifoTopic -> "true"
                       [] k = FifoTopicContentBasedDeduplication -> "false"
                       [] OTHER -> "a"],
       tags |-> <<[Key |-> "env", Value |-> "x"]>>],
      [attrs |-> [k \in {TopicPolicy, TopicDisplayName, TopicKMSMasterKeyID, FifoTopic,
                         FifoTopicContentBasedDeduplication} |->
                     IF k \in FlagAttrs THEN "false" ELSE "b"],
       tags |-> <<[Key |-> "env", Value |-> "X"], [Key |-> "team", Value |-> "x"]>>] }

NoFrame ==
    [attributes |-> EmptyMap, tags |-> <<>>, diff |-> EmptyMap, pending |-> <<>>,
     removeTags |-> <<>>, addTags |-> <<>>]

\* what one pass works on: the Topic object and the log of its calls, the
\* locals of the running handler, its topic, and its stored parameters
StartOf(p, order, name, topic) ==
    [pass |-> [pc |-> "Observe.Get", cr |-> p, name |-> name, order |-> order,
               log |-> <<>>, condition |-> "", observation |-> NoObservation,
               exists |-> FALSE, upToDate |-> FALSE, panicked |-> FALSE],
     frame |-> NoFrame,
     topic |-> [attrs |-> Merge(SystemAttributes(name), topic.attrs), tags |-> topic.tags],
     stored |-> p]

Logged(b, op, k, v, tags) ==
    [b EXCEPT !.pass.log = Append(@, Request(op, b.pass.name, k, v, EmptyMap, tags, NilErr))]

\* the keys of map m in the order a range visits them
OrderedKeys(m, order) == SelectSeq(order, LAMBDA k : k \in DOMAIN m)

\* Observe from the condition to its return
ObserveDone(b) ==
    [b EXCEPT !.pass.condition = "Available",
              !.pass.observation = GenerateObservation(b.frame.attributes),
              !.pass.exists = TRUE,
              !.pass.upToDate = IsUpToDate(b.pass.cr, b.frame.attributes, b.frame.tags),
              !.pass.pc = IF IsUpToDate(b.pass.cr, b.frame.attributes, b.frame.tags)
                          THEN "done" ELSE "Update.Get"]

\* the next client call of a pass and the statements up to the call after it
PassStep(b) ==
    CASE b.pass.pc = "Observe.Get" ->
           [Logged(b, "GetTopicAttributes", "", "", <<>>) EXCEPT
               !.frame.attributes = b.topic.attrs,
               !.pass.pc = "Observe.List"]
      [] b.pass.pc = "Observe.List" ->
           LET b1 == [Logged(b, "ListTagsForResource", "", "", <<>>) EXCEPT
                         !.frame.tags = b.topic.tags]
               late == LateInitialize(b1.pass.cr, b1.frame.attributes, b1.frame.tags)
           IN  IF late # b1.pass.cr
               THEN [b1 EXCEPT !.pass.cr = late, !.pass.pc = "Observe.Update"]
               ELSE ObserveDone(b1)
      [] b.pass.pc = "Observe.Update" ->
           ObserveDone([Logged(b, "kube.Update", "", "", <<>>) EXCEPT !.stored = b.pass.cr])
      [] b.pass.pc = "Update.Get" ->
           LET diffAttributes == GetAttributeDiff(b.pass.cr, b.topic.attrs)
           IN  [Logged(b, "GetTopicAttributes", "", "", <<>>) EXCEPT
                   !.frame.attributes = b.topic.attrs,
                   !.frame.diff = diffAttributes,
                   !.frame.pending = OrderedKeys(diffAttributes, b.pass.order),
                   !.pass.pc = IF diffAttributes = EmptyMap
                               THEN "Update.List" ELSE "Update.Set"]
      [] b.pass.pc = "Update.Set" ->
           IF b.frame.pending = <<>> \/ Head(b.frame.pending) \notin DOMAIN b.frame.diff
           THEN [b EXCEPT !.pass.pc = "Update.List"]
           ELSE LET k == Head(b.frame.pending)
                IN  [Logged(b, "SetTopicAttributes", k, b.frame.diff[k], <<>>) EXCEPT
                        !.topic.attrs = Put(b.topic.attrs, k, b.frame.diff[k]),
                        !.frame.pending = Tail(b.frame.pending),
                        !.pass.pc = IF Tail(b.frame.pending) = <<>>
                                    THEN "Update.List" ELSE "Update.Set"]
      [] b.pass.pc = "Update.List" ->
           LET d == GetDiffTags(b.pass.cr, b.topic.tags, <<>>)
               b1 == [Logged(b, "ListTagsForResource", "", "", <<>>) EXCEPT
                         !.frame.tags = b.topic.tags]
           IN  IF d.panicked
               THEN [b1 EXCEPT !.pass.panicked = TRUE, !.pass.pc = "done"]
               ELSE [b1 EXCEPT !.frame.removeTags = d.removeTags,
                               !.frame.addTags = d.addTags,
                               !.pass.pc = IF d.removeTags # <<>> THEN "Update.Untag"
                                           ELSE IF d.addTags # <<>> THEN "Update.Tag"
                                           ELSE "done"]
      [] b.pass.pc = "Update.Untag" ->
           [Logged(b, "UntagResource", "", "", b.frame.removeTags) EXCEPT
               !.topic.tags = Untag(b.topic.tags,
                                    {b.frame.removeTags[i].Key : i \in DOMAIN b.frame.removeTags}),
               !.pass.pc = IF b.frame.addTags # <<>> THEN "Update.Tag" ELSE "done"]
      [] b.pass.pc = "Update.Tag" ->
           [Logged(b, "TagResource", "", "", b.frame.addTags) EXCEPT
               !.topic.tags = TagAll(b.topic.tags, b.frame.addTags, 1),
               !.pass.pc = "done"]
      [] OTHER -> b

\* the pass run to its end with nothing else running
RECURSIVE RunAlone(_)
RunAlone(b) == IF b.pass.pc = "done" THEN b ELSE RunAlone(PassStep(b))

\* what the pass for Topic r works on, taken from the shared state
BundleOf(r) ==
    [pass |-> par.pass[r], frame |-> par.frame[Frame(r)],
     topic |-> par.sns[NameOf(r)], stored |-> par.store[r]]

InitPar ==
    /\ \E p \in [Resources -> CtlParameters] :
       \E order \in [Resources -> ParOrders] :
       \E topic \in [Resources -> ParTopics] :
         LET start == [r \in Resources |-> StartOf(p[r], order[r], NameOf(r), topic[r])]
         IN  par = [pass |-> [r \in Resources |-> start[r].pass],
                    frame |-> [r \in Resources |-> start[r].frame],
                    sns |-> [n \in {NameOf(r) : r \in Resources} |->
                                start[CHOOSE r \in Resources : NameOf(r) = n].topic],
                    store |-> [r \in Resources |-> start[r].stored],
                    start |-> start,
                    mixed |-> FALSE]
    /\ forProvider = Unset
    /\ topicAttributes = EmptyMap
    /\ topicTags = <<>>
    /\ current = Nil
    /\ call = "none"
    /\ ret = NoRet
    /\ CtlIdle

\* the pass for Topic r makes its next call
PassAdvance(r) ==
    /\ par.pass[r].pc # "done"
    /\ LET b == PassStep(BundleOf(r))
       IN  par' = [par EXCEPT
                      !.pass[r] = b.pass,
                      !.frame[Frame(r)] = b.frame,
                      !.sns[NameOf(r)] = b.topic,
                      !.store[r] = b.stored,
                      !.mixed = @ \/ \E o \in Resources \ {r} :
                                        par.pass[o].pc \notin {"Observe.Get", "done"}]
    /\ UNCHANGED <<pureVars, ctlVars>>

NextPar == \E r \in Resources : PassAdvance(r)

SpecPar == InitPar /\ [][NextPar]_vars

-----------------------------------------------------------------------------
(* Passes for one Topic one after the other: the reconciler runs Observe,
   then Update when Observe reports a difference, and comes back to the
   Topic as long as it is not up to date.  Every call succeeds and the
   service applies every change; `par` holds the one pass. *)

\* the topics a pass may find: present, with any of the attribute maps and
\* tag lists
ConvTopics == [attrs : CtlAttributes, tags : CtlTags]

InitConv ==
    /\ \E p \in CtlParameters, order \in ParOrders, topic \in ConvTopics :
         par = StartOf(p, order, "arn1", topic)
    /\ forProvider = Unset
    /\ topicAttributes = EmptyMap
    /\ topicTags = <<>>
    /\ current = Nil
    /\ call = "none"
    /\ ret = NoRet
    /\ CtlIdle

\* the pass makes its next call
PassNext ==
    /\ par.pass.pc # "done"
    /\ par' = PassStep(par)
    /\ UNCHANGED <<pureVars, ctlVars>>

\* the reconciler comes back to a Topic that was not up to date, or whose
\* Update was aborted, with the Topic as the store has it
PassAgain ==
    /\ par.pass.pc = "done"
    /\ ~par.pass.upToDate
    /\ par' = StartOf(par.stored, par.pass.order, par.pass.name, par.topic)
    /\ UNCHANGED <<pureVars, ctlVars>>

NextConv == PassNext \/ PassAgain

\* the reconciler does not stop: a pass that can go on goes on, and a Topic
\* that is not up to date is taken up again
SpecConv == InitConv /\ [][NextConv]_vars /\ WF_vars(NextConv)

-----------------------------------------------------------------------------
(* Vocabulary of the properties *)

\* the desired pointer of the attribute named a
DesiredText(p, a) ==
    CASE a = TopicPolicy -> p.Policy
      [] a = TopicDisplayName -> p.DisplayName
      [] a = TopicDeliveryPolicy -> p.DeliveryPolicy
      [] a = TopicKMSMasterKeyID -> p.KMSMasterKeyID

DesiredFlag(p, a) ==
    CASE a = FifoTopic -> p.FifoTopic
      [] a = FifoTopicContentBasedDeduplication -> p.ContentBasedDeduplication

\* the observed flag a is not the text of a boolean (or is missing)
Unparsable(attributes, a) == ParseBool(Index(attributes, a)).e

\* desired and observed values of attribute a differ: free text compared
\* without regard to case, flags as booleans, an unparsable flag differing
\* from every desired value
Differs(p, attributes, a) ==
    IF a \in TextAttrs
    THEN ~EqualFold(StringValue(DesiredText(p, a)), Index(attributes, a))
    ELSE \/ Unparsable(attributes, a)
         \/ ParseBool(Index(attributes, a)).b # BoolValue(DesiredFlag(p, a))

\* the string form of the desired value of attribute a
DesiredString(p, a) ==
    IF a \in TextAttrs THEN StringValue(DesiredText(p, a))
    ELSE FormatBool(BoolValue(DesiredFlag(p, a)))

Range(s) == {s[i] : i \in DOMAIN s}
Occurrences(s, x) == Cardinality({i \in DOMAIN s : s[i] = x})
ObservedKeys == {topicTags[i].Key : i \in DOMAIN topicTags}
DesiredTagMap == TagsOf(forProvider)

\* every possible result of GetDiffTags on the current inputs is a normal
\* return of two empty slices
TagDiffEmpty ==
    \A order \in RangeOrders(RemainingTags(forProvider, topicTags)) :
        LET r == GetDiffTags(forProvider, topicTags, order)
        IN  ~r.panicked /\ Len(r.addTags) = 0 /\ Len(r.removeTags) = 0

-----------------------------------------------------------------------------
(* Properties *)

\* C1: IsUpToDate returns true if and only if GetAttributeDiff is empty and
\* GetDiffTags returns both toAdd and toRemove empty.
C1_UpToDateIffDiffsEmpty ==
    call = "IsUpToDate" =>
        (ret.upToDate <=>
            /\ DOMAIN GetAttributeDiff(forProvider, topicAttributes) = {}
            /\ TagDiffEmpty)

\* C2: for every observed tag whose key is absent from the desired tags,
\* GetDiffTags places the tag in toRemove exactly once and places no entry
\* for that key in toAdd.
C2_AbsentKeyRemovedOnce ==
    call = "GetDiffTags" =>
        \A i \in DOMAIN topicTags :
            topicTags[i].Key \notin DOMAIN DesiredTagMap =>
                /\ ~ret.panicked
                /\ Occurrences(ret.removeTags, topicTags[i]) = 1
                /\ \A j \in DOMAIN ret.addTags : ret.addTags[j].Key # topicTags[i].Key

\* C3: every key of the desired tags that does not occur in the observed
\* tags is returned in toAdd with its desired value.
C3_NetNewKeyAdded ==
    call = "GetDiffTags" =>
        \A k \in DOMAIN DesiredTagMap \ ObservedKeys :
            /\ ~ret.panicked
            /\ [Key |-> k, Value |-> DesiredTagMap[k]] \in Range(ret.addTags)

\* C4: for every observed tag whose key is desired with a different value,
\* the observed tag is in toRemove and the key with its desired value is in
\* toAdd.
C4_ChangedValueReplaced ==
    call = "GetDiffTags" =>
        \A i \in DOMAIN topicTags :
            (/\ topicTags[i].Key \in DOMAIN DesiredTagMap
             /\ DesiredTagMap[topicTags[i].Key] # topicTags[i].Value) =>
                /\ ~ret.panicked
                /\ topicTags[i] \in Range(ret.removeTags)
                /\ [Key |-> topicTags[i].Key,
                    Value |-> DesiredTagMap[topicTags[i].Key]] \in Range(ret.addTags)

\* C5: when every observed tag has a desired tag of the same key and value
\* and the desired tags have no other key, GetDiffTags returns toAdd and
\* toRemove both empty, also when the desired tag set is not empty.
C5_MatchingTagsNoDiff ==
    (/\ call = "GetDiffTags"
     /\ \A i \in DOMAIN topicTags :
            /\ topicTags[i].Key \in DOMAIN DesiredTagMap
            /\ DesiredTagMap[topicTags[i].Key] = topicTags[i].Value
     /\ DOMAIN DesiredTagMap \subseteq ObservedKeys) =>
        /\ ~ret.panicked
        /\ Len(ret.addTags) = 0
        /\ Len(ret.removeTags) = 0

\* C6: IsUpToDate, GetAttributeDiff and GetDiffTags never fail: whatever the
\* inputs, each returns normally.
C6_NeverFails ==
    call \in {"IsUpToDate", "GetAttributeDiff", "GetDiffTags"} => ~ret.panicked

\* C7: GetAttributeDiff returns exactly the attributes whose desired and
\* observed values differ, each mapped to the string form of the desired
\* value, and an empty result when none differ.
C7_AttributeDiffExact ==
    call = "GetAttributeDiff" =>
        ret.diff = [a \in {a \in AttrNames : Differs(forProvider, topicAttributes, a)}
                        |-> DesiredString(forProvider, a)]

\* C8: when the observed value of FifoTopic or ContentBasedDeduplication does
\* not parse as a boolean, GetAttributeDiff includes that attribute, whatever
\* the desired value.
C8_UnparsableFlagInDiff ==
    call = "GetAttributeDiff" =>
        \A a \in FlagAttrs :
            Unparsable(topicAttributes, a) => a \in DOMAIN ret.diff

\* C9: when the observed value of FifoTopic or ContentBasedDeduplication does
\* not parse as a boolean (also when it is missing), IsUpToDate returns false
\* whatever the other fields are.
C9_UnparsableFlagNotUpToDate ==
    (/\ call = "IsUpToDate"
     /\ \E a \in FlagAttrs : Unparsable(topicAttributes, a)) =>
        ret.upToDate = FALSE

\* C9 witness: FifoTopic is observed as text that is no boolean and desired
\* false, the tags, the free-text attributes and the other flag all match,
\* and IsUpToDate has returned false.
C9_Witness ==
    /\ call = "IsUpToDate"
    /\ forProvider.FifoTopic = Some(FALSE)
    /\ FifoTopic \in DOMAIN topicAttributes
    /\ Unparsable(topicAttributes, FifoTopic)
    /\ \A a \in AttrNames \ {FifoTopic} : ~Differs(forProvider, topicAttributes, a)
    /\ DOMAIN DesiredTagMap = ObservedKeys
    /\ ObservedKeys # {}
    /\ ret.upToDate = FALSE

\* C10: IsUpToDate returns true exactly when the desired and observed tag
\* sets have equal cardinality, every desired tag key is among the observed
\* tags with a case-insensitively equal value, the four free-text attributes
\* equal their observed values case-insensitively (unset = ""), and both
\* flags parse as booleans equal to the desired flags (unset = false).
C10_UpToDateExact ==
    call = "IsUpToDate" =>
        (ret.upToDate <=>
            /\ Cardinality(DOMAIN DesiredTagMap) = Cardinality(Range(topicTags))
            /\ \A k \in DOMAIN DesiredTagMap :
                   \E i \in DOMAIN topicTags :
                       /\ topicTags[i].Key = k
                       /\ EqualFold(DesiredTagMap[k], topicTags[i].Value)
            /\ \A a \in TextAttrs :
                   EqualFold(StringValue(DesiredText(forProvider, a)),
                             Index(topicAttributes, a))
            /\ \A a \in FlagAttrs :
                   /\ ~Unparsable(topicAttributes, a)
                   /\ ParseBool(Index(topicAttributes, a)).b
                          = BoolValue(DesiredFlag(forProvider, a)))

\* C10 witness: IsUpToDate has returned true for a non-empty desired tag set
\* whose value differs from the observed one in case only.
C10_Witness ==
    /\ call = "IsUpToDate"
    /\ ret.upToDate = TRUE
    /\ \E i \in DOMAIN topicTags :
           /\ topicTags[i].Key \in DOMAIN DesiredTagMap
           /\ DesiredTagMap[topicTags[i].Key] # topicTags[i].Value

\* C11: LateInitialize never changes a desired field that is already set:
\* every scalar field set before the call (also to "" or to false) and a tag
\* set that exists (even empty) have the same value after the call.
C11_SetFieldsKept ==
    call = "LateInitialize" =>
        /\ \A a \in TextAttrs :
               DesiredText(current, a) # Nil =>
                   DesiredText(forProvider, a) = DesiredText(current, a)
        /\ \A a \in FlagAttrs :
               DesiredFlag(current, a) # Nil =>
                   DesiredFlag(forProvider, a) = DesiredFlag(current, a)
        /\ current.Tags # Nil => forProvider.Tags = current.Tags

\* C11 witness: LateInitialize has run on a Policy set to "" and a FifoTopic
\* set to false whose observed values are "a" and "true", has kept both and
\* has filled some other field.
C11_Witness ==
    /\ call = "LateInitialize"
    /\ current.Policy = Some("")
    /\ Index(topicAttributes, TopicPolicy) = "a"
    /\ forProvider.Policy = Some("")
    /\ current.FifoTopic = Some(FALSE)
    /\ Index(topicAttributes, FifoTopic) = "true"
    /\ forProvider.FifoTopic = Some(FALSE)
    /\ forProvider # current

\* C12: LateInitialize is idempotent: applied again with the same observed
\* attributes and tags it gives the desired state it gave the first time.
C12_Idempotent ==
    call = "LateInitialize" =>
        LateInitialize(forProvider, topicAttributes, topicTags) = forProvider

\* C12 witness: the first application has adopted the observed tags and
\* filled a flag.
C12_Witness ==
    /\ call = "LateInitialize"
    /\ current.Tags = Nil
    /\ forProvider.Tags # Nil
    /\ current.FifoTopic = Nil
    /\ forProvider.FifoTopic # Nil

\* C13: an unset DeliveryPolicy, DisplayName, Policy or KmsMasterKeyId whose
\* observed value is empty or missing stays unset, and an unset flag whose
\* observed value is missing or does not parse stays unset.
C13_EmptyObservedKeepsUnset ==
    call = "LateInitialize" =>
        /\ \A a \in TextAttrs :
               (DesiredText(current, a) = Nil /\ Index(topicAttributes, a) = "") =>
                   DesiredText(forProvider, a) = Nil
        /\ \A a \in FlagAttrs :
               (DesiredFlag(current, a) = Nil /\ Unparsable(topicAttributes, a)) =>
                   DesiredFlag(forProvider, a) = Nil

\* the mapping key -> value of the observed tags
ObservedTagMap ==
    [k \in ObservedKeys |->
        CHOOSE v \in {topicTags[i].Value : i \in DOMAIN topicTags} :
            [Key |-> k, Value |-> v] \in Range(topicTags)]

\* C14: an unset desired tag set becomes the mapping of the observed tags
\* when there is an observed tag and stays unset when there is none; a tag
\* set that exists (even empty) is unchanged.
C14_TagsLateInitialized ==
    call = "LateInitialize" =>
        /\ (current.Tags = Nil /\ Len(topicTags) > 0) =>
               forProvider.Tags = Some(ObservedTagMap)
        /\ (current.Tags = Nil /\ Len(topicTags) = 0) => forProvider.Tags = Nil
        /\ current.Tags # Nil => forProvider.Tags = current.Tags

\* C14 witness: an unset tag set has become the map of two observed tags.
C14_Witness ==
    /\ call = "LateInitialize"
    /\ current.Tags = Nil
    /\ Len(topicTags) = 2
    /\ forProvider.Tags = Some(ObservedTagMap)

-----------------------------------------------------------------------------
(* The handlers of the controller *)

\* the SetTopicAttributes calls in a log of client calls
SetRequests(log) == {log[i] : i \in {j \in DOMAIN log : log[j].op = "SetTopicAttributes"}}

\* C15: when the external name is unset or equal to the name of the Topic,
\* Observe reports that the topic does not exist and is not up to date,
\* returns no error and makes no client call
C15_NoIdentityShortCircuits ==
    (handler = "Observe" /\ (externalName = "" \/ externalName = crName))
        => /\ calls = <<>>
           /\ ~returned.exists
           /\ ~returned.upToDate
           /\ returned.err = NilErr

\* C16: when GetTopicAttributes answers NotFound in Observe, Observe returns
\* no error and reports that the topic does not exist; it lists no tags and
\* neither late-initializes nor stores the parameters
C16_NotFoundIsAbsent ==
    [][(handler' = "Observe" /\ calls' # <<>> /\ calls'[1].err = ErrNotFound)
          => /\ returned'.err = NilErr
             /\ ~returned'.exists
             /\ Len(calls') = 1
             /\ forProvider' = kube
             /\ kube' = kube]_vars

C16_Witness ==
    /\ handler = "Observe"
    /\ Len(calls) = 1
    /\ calls[1].op = "GetTopicAttributes"
    /\ calls[1].err = ErrNotFound
    /\ externalName = "arn1"
    /\ LateInitialize(kube, aws.attrs, aws.tags) # kube

\* C17: Delete returns no error when DeleteTopic answers NotFound, and an
\* error when DeleteTopic fails in any other way
C17_DeleteOnAbsentSucceeds ==
    handler = "Delete"
        => /\ calls[1].op = "DeleteTopic"
           /\ calls[1].err = ErrNotFound => returned.err = NilErr
           /\ calls[1].err \notin {NilErr, ErrNotFound} => returned.err # NilErr

C17_Witness ==
    /\ handler = "Delete"
    /\ calls[1].err = ErrNotFound
    /\ returned.err = NilErr

\* C18: a Create that succeeds sets the external name to the ARN answered
\* by CreateTopic, not to the name it sent; a Create that fails leaves the
\* external name as it was and returns an error
C18_IdentityFromCreate ==
    [][(handler = "Observe" /\ handler' = "Create")
          => IF calls'[1].err = NilErr
             THEN /\ returned'.err = NilErr
                  /\ externalName' = aws'.arn
                  /\ returned'.conn = Some(externalName')
                  /\ externalName' \in Arns
             ELSE /\ returned'.err # NilErr
                  /\ externalName' = externalName]_vars

C18_Witness ==
    /\ handler = "Create"
    /\ calls[1].err = NilErr
    /\ calls[1].name = crName
    /\ externalName = "arn2"

\* C19: once the external name is an ARN answered by CreateTopic it never
\* changes, also when the topic is found missing and Create runs again
C19_IdentityImmutable ==
    [][(externalName \in created) => (externalName' = externalName)]_vars

\* C20: an Update that follows an Update which failed among its attribute
\* calls computes the difference from the attributes it fetches: it sets
\* only attributes that differ from the desired ones, to the desired value,
\* and none that the failed Update had set
C20_RetryOnlyStillDiffering ==
    [][(handler = "Observe" /\ handler' = "Update" /\ lastUpdate.failed)
          => \A r \in SetRequests(calls') :
                /\ r.name \notin lastUpdate.applied
                /\ Differs(forProvider, aws.attrs, r.name)
                /\ r.value = DesiredString(forProvider, r.name)]_vars

C20_Witness ==
    /\ handler = "Update"
    /\ lastUpdate.prevFailed
    /\ lastUpdate.prevApplied # {}
    /\ SetRequests(calls) # {}

\* the positions in a log of the calls of operation op
CallsOf(log, op) == {i \in DOMAIN log : log[i].op = op}

\* C21: in one Update every SetTopicAttributes call comes before the tag
\* calls, UntagResource comes before TagResource, and TagResource is not
\* called when UntagResource failed
C21_UpdateCallOrder ==
    handler = "Update"
        => /\ \A i \in CallsOf(calls, "SetTopicAttributes") :
              \A j \in CallsOf(calls, "UntagResource") \cup CallsOf(calls, "TagResource") :
                 i < j
           /\ \A i \in CallsOf(calls, "UntagResource") :
              \A j \in CallsOf(calls, "TagResource") :
                 i < j /\ calls[i].err = NilErr

C21_Witness ==
    /\ handler = "Update"
    /\ CallsOf(calls, "SetTopicAttributes") # {}
    /\ CallsOf(calls, "UntagResource") # {}
    /\ CallsOf(calls, "TagResource") # {}

\* desired and observed state are equal: no attribute differs and the
\* observed tags are the desired tags
InSync(p, attributes, tags) ==
    /\ \A a \in AttrNames : ~Differs(p, attributes, a)
    /\ TagsOf(p) = TagsToMap(tags)

\* the calls of a log that change the topic
MutatingCalls(log) ==
    {i \in DOMAIN log : log[i].op \in {"CreateTopic", "SetTopicAttributes", "TagResource",
                                       "UntagResource", "DeleteTopic"}}

\* C22: when the desired state equals the observed attributes and tags, the
\* pass reports up to date, both differences are empty and no call that
\* changes the topic is made
C22_NoOpStability ==
    (/\ handler = "Observe"
     /\ returned.err = NilErr
     /\ returned.exists
     /\ InSync(forProvider, topicAttributes, topicTags))
        => /\ returned.upToDate
           /\ MutatingCalls(calls) = {}
           /\ GetAttributeDiff(forProvider, topicAttributes) = EmptyMap
           /\ \A order \in RangeOrders(RemainingTags(forProvider, topicTags)) :
                 /\ ~GetDiffTags(forProvider, topicTags, order).panicked
                 /\ GetDiffTags(forProvider, topicTags, order).addTags = <<>>
                 /\ GetDiffTags(forProvider, topicTags, order).removeTags = <<>>

\* the entries of map m with a key in S
Restrict(m, S) == [k \in DOMAIN m \cap S |-> m[k]]

\* C23: after a successful Create, an Observe that fetches exactly the
\* attributes and tags that were submitted reports up to date and
\* LateInitialize changes nothing, whatever fields the desired state sets
C23_CreateObserveRoundTrip ==
    (/\ handler = "Observe"
     /\ externalName \in created
     /\ current # Nil
     /\ Restrict(topicAttributes, AttrNames) = GenerateTopicAttributeMap(current[1])
     /\ Len(topicTags) = Cardinality(DOMAIN TagsOf(current[1]))
     /\ TagsToMap(topicTags) = TagsOf(current[1]))
        => /\ returned.upToDate
           /\ forProvider = current[1]

\* a step that is a call of Observe
ObserveStep == handler' = "Observe" /\ deleting' = deleting /\ aws' = aws

\* C24: an Observe that fetched attributes and tags writes the Topic to the
\* store exactly when LateInitialize changed its parameters; when the write
\* fails, Observe returns an error and no verdict
C24_PersistIffLateInitialized ==
    [][(/\ ObserveStep
        /\ Len(calls') >= 2
        /\ calls'[1].err = NilErr
        /\ calls'[2].err = NilErr)
          => LET late == LateInitialize(kube, aws.attrs, aws.tags)
                 writes == CallsOf(calls', "kube.Update")
             IN  /\ writes # {} <=> late # kube
                 /\ Cardinality(writes) <= 1
                 /\ writes = {} => kube' = kube
                 /\ \A i \in writes :
                       IF calls'[i].err # NilErr
                       THEN /\ returned'.err # NilErr
                            /\ ~returned'.exists
                            /\ ~returned'.upToDate
                            /\ kube' = kube
                       ELSE /\ kube' = late
                            /\ returned'.err = NilErr]_vars

C24_Witness ==
    /\ handler = "Observe"
    /\ Len(calls) = 3
    /\ calls[3].op = "kube.Update"
    /\ calls[3].err # NilErr
    /\ returned.err.msg = errKubeUpdateFailed
    /\ forProvider # kube

\* C25: no handler retries or goes on after a failure of the transport: the
\* failed call is the last call of the handler and the handler returns an
\* error; no attribute is set twice and every other operation is called at
\* most once in a handler call
C25_NoInternalRetry ==
    /\ \A i \in DOMAIN calls :
          calls[i].err \in TransportErrors
              => i = Len(calls) /\ returned.err # NilErr
    /\ \A i, j \in CallsOf(calls, "SetTopicAttributes") :
          i # j => calls[i].name # calls[j].name
    /\ \A op \in {"GetTopicAttributes", "ListTagsForResource", "UntagResource",
                  "TagResource", "CreateTopic", "DeleteTopic", "kube.Update"} :
          Cardinality(CallsOf(calls, op)) <= 1

C25_Witness ==
    /\ handler = "Update"
    /\ Len(calls) >= 4
    /\ calls[Len(calls)].op = "SetTopicAttributes"
    /\ calls[Len(calls)].err \in TransportErrors
    /\ Cardinality(DOMAIN GetAttributeDiff(forProvider, topicAttributes)) > Len(calls) - 1

-----------------------------------------------------------------------------
(* The helper functions: purity *)

\* sequences s and t hold the same elements the same number of times
SameBag(s, t) ==
    \A x \in Range(s) \cup Range(t) : Occurrences(s, x) = Occurrences(t, x)

\* C26: IsUpToDate, GetAttributeDiff and GetDiffTags leave the parameters,
\* the observed attributes and the observed tags as they were, and a second
\* call on the same inputs returns the same result, the tags of a result
\* taken as an unordered collection
C26_DiffFunctionsPure ==
    [][(call' \in {"IsUpToDate", "GetAttributeDiff", "GetDiffTags"})
          => /\ forProvider' = forProvider
             /\ topicAttributes' = topicAttributes
             /\ topicTags' = topicTags
             /\ call' = "IsUpToDate"
                   => ret'.upToDate = IsUpToDate(forProvider', topicAttributes', topicTags')
             /\ call' = "GetAttributeDiff"
                   => ret'.diff = GetAttributeDiff(forProvider', topicAttributes')
             /\ call' = "GetDiffTags"
                   => \A order \in RangeOrders(RemainingTags(forProvider', topicTags')) :
                         LET d == GetDiffTags(forProvider', topicTags', order)
                         IN  /\ d.panicked = ret'.panicked
                             /\ SameBag(d.addTags, ret'.addTags)
                             /\ SameBag(d.removeTags, ret'.removeTags)]_vars

C26_Witness ==
    /\ call = "GetDiffTags"
    /\ forProvider.Tags # Nil
    /\ TagsOf(forProvider) # EmptyMap
    /\ \E i \in DOMAIN topicTags : topicTags[i].Key \in DOMAIN TagsOf(forProvider)

-----------------------------------------------------------------------------
(* The handlers: what they leave alone *)

\* C27: the parameters of the Topic, in memory and in the store, change only
\* in Observe, to what LateInitialize makes of the stored ones; Create,
\* Update and Delete leave them as they are, failing or not
C27_DesiredOnlyLateInitialized ==
    [][/\ (handler = "Observe" /\ handler' \in {"Create", "Update", "Delete"})
             => forProvider' = forProvider /\ kube' = kube
       /\ (forProvider' # forProvider \/ kube' # kube)
             => /\ ObserveStep
                /\ forProvider' \in {kube, LateInitialize(kube, aws.attrs, aws.tags)}
                /\ kube' \in {kube, LateInitialize(kube, aws.attrs, aws.tags)}]_vars

C27_Witness ==
    /\ handler = "Create"
    /\ returned.err = NilErr
    /\ LateInitialize(forProvider, aws.attrs, aws.tags) # forProvider

-----------------------------------------------------------------------------
(* GenerateObservation *)

\* the integers written by the decimal numerals among the counter values
Decimal == [s \in {"0", "2", "-1", "+2"} |-> IF s = "0" THEN 0 ELSE IF s = "-1" THEN -1 ELSE 2]

\* the counter of an observation read from the attribute named k
CounterOf(observation, k) ==
    CASE k = TopicSubscriptionConfirmed -> observation.SubscriptionsConfirmed
      [] k = TopicSubscriptionPending -> observation.SubscriptionsPending
      [] k = TopicSubscriptionDeleted -> observation.SubscriptionsDeleted

\* C28: GenerateObservation always returns; each counter is the integer the
\* attribute writes when it is a number and unset when the attribute is
\* missing or no number; ARN and effective delivery policy are the text
\* of their attributes
C28_ObservationBestEffort ==
    call = "GenerateObservation"
        => /\ \A k \in CounterNames :
                CounterOf(atProvider, k) =
                    IF k \in DOMAIN topicAttributes /\ topicAttributes[k] \in DOMAIN Decimal
                    THEN Some(Decimal[topicAttributes[k]])
                    ELSE Nil
           /\ atProvider.TopicArn = Some(Index(topicAttributes, TopicArn))
           /\ atProvider.EffectiveDeliveryPolicy =
                  Some(Index(topicAttributes, TopicEffectiveDeliveryPolicy))

C28_Witness ==
    /\ call = "GenerateObservation"
    /\ Index(topicAttributes, TopicSubscriptionConfirmed) = "junk"
    /\ TopicSubscriptionPending \notin DOMAIN topicAttributes
    /\ Index(topicAttributes, TopicSubscriptionDeleted) = "2"
    /\ atProvider.SubscriptionsDeleted = Some(2)
    /\ atProvider.TopicArn = Some("arn1")

-----------------------------------------------------------------------------
(* Create: what is sent *)

\* the field of attribute a is set in the parameters p
IsSet(p, a) == IF a \in TextAttrs THEN DesiredText(p, a) # Nil ELSE DesiredFlag(p, a) # Nil

\* C29: CreateTopic is called with one attribute for every field that is
\* set, a flag written as "true" or "false", none for a field that is
\* unset, and one tag for every desired key and value
C29_CreateSendsDesired ==
    handler = "Create"
        => /\ calls[1].op = "CreateTopic"
           /\ DOMAIN calls[1].attributes = {a \in AttrNames : IsSet(forProvider, a)}
           /\ \A a \in DOMAIN calls[1].attributes :
                 IF a \in TextAttrs
                 THEN calls[1].attributes[a] = DesiredText(forProvider, a)[1]
                 ELSE calls[1].attributes[a] =
                          (IF DesiredFlag(forProvider, a)[1] THEN "true" ELSE "false")
           /\ Len(calls[1].tags) = Cardinality(DOMAIN TagsOf(forProvider))
           /\ \A k \in DOMAIN TagsOf(forProvider) :
                 Occurrences(calls[1].tags,
                             [Key |-> k, Value |-> TagsOf(forProvider)[k]]) = 1

C29_Witness ==
    /\ handler = "Create"
    /\ FifoTopic \in DOMAIN calls[1].attributes
    /\ calls[1].attributes[FifoTopic] = "true"
    /\ TopicKMSMasterKeyID \notin DOMAIN calls[1].attributes
    /\ forProvider.KMSMasterKeyID = Nil

-----------------------------------------------------------------------------
(* Passes side by side *)

\* C30: the passes of two Topics share nothing they change: however their
\* calls interleave, each pass ends with the Topic object, the log of
\* calls, the topic and the stored parameters it ends with when run alone
C30_PassesDoNotInterfere ==
    \A r \in Resources :
        par.pass[r].pc = "done"
            => /\ par.pass[r] = RunAlone(par.start[r]).pass
               /\ par.sns[NameOf(r)] = RunAlone(par.start[r]).topic
               /\ par.store[r] = RunAlone(par.start[r]).stored

C30_Witness ==
    /\ \A r \in Resources :
          /\ par.pass[r].pc = "done"
          /\ CallsOf(par.pass[r].log, "SetTopicAttributes") # {}
          /\ CallsOf(par.pass[r].log, "kube.Update") # {}
    /\ par.mixed
    /\ par.pass["A"].log # par.pass["B"].log

-----------------------------------------------------------------------------
(* Observe and Update: verdict, calls and failures *)

\* a step that is a call of Update
UpdateStep == handler = "Observe" /\ handler' = "Update"

\* C32: Observe computes the verdict on the parameters LateInitialize has
\* filled in: with no desired tags and some observed tags, the observed tags
\* become the desired tags, in the Topic object and in the store, the verdict
\* is the verdict on the attributes alone, and the Update that follows calls
\* no UntagResource
C32_VerdictAfterLateInitialize ==
    [][/\ (/\ ObserveStep
           /\ returned'.err = NilErr
           /\ returned'.exists
           /\ kube.Tags = Nil
           /\ aws.tags # <<>>)
             => /\ forProvider'.Tags = Some(TagsToMap(aws.tags))
                /\ kube'.Tags = Some(TagsToMap(aws.tags))
                /\ returned'.upToDate =
                      IsUpToDate([forProvider' EXCEPT !.Tags = Some(EmptyMap)], aws.attrs, <<>>)
       /\ (/\ UpdateStep
           /\ current # Nil
           /\ current[1].Tags = Nil
           /\ topicTags # <<>>)
             => CallsOf(calls', "UntagResource") = {}]_vars

C32_Witness ==
    /\ handler = "Observe"
    /\ returned.err = NilErr
    /\ returned.upToDate
    /\ current # Nil
    /\ current[1].Tags = Nil
    /\ Len(topicTags) = 2
    /\ forProvider.Tags = Some(TagsToMap(topicTags))

C34_UpdateOnAbsentSucceeds ==
    (/\ handler = "Update"
     /\ calls # <<>>
     /\ calls[1].err = ErrNotFound)
        => /\ Len(calls) = 1
           /\ calls[1].op = "GetTopicAttributes"
           /\ returned.err = NilErr
           /\ ~returned.panicked

C34_Witness ==
    /\ handler = "Update"
    /\ calls # <<>>
    /\ calls[1].err = ErrNotFound
    /\ ~aws.exists
    /\ GetAttributeDiff(forProvider, topicAttributes) # EmptyMap

\* the last call of log failed, and not GetTopicAttributes with NotFound
FetchFailed(log) ==
    /\ log # <<>>
    /\ log[Len(log)].op \in {"GetTopicAttributes", "ListTagsForResource"}
    /\ log[Len(log)].err # NilErr
    /\ ~(log[Len(log)].op = "GetTopicAttributes" /\ log[Len(log)].err = ErrNotFound)

\* C35: an Observe that fails on GetTopicAttributes with an error other than
\* NotFound, or on ListTagsForResource with any error, returns an error and
\* leaves the Topic as it was: the parameters are those of the store, the
\* store is not written, and observation and condition keep their values
C35_FailedObserveChangesNothing ==
    [][(ObserveStep /\ FetchFailed(calls'))
          => /\ returned'.err # NilErr
             /\ ~returned'.exists
             /\ forProvider' = kube
             /\ kube' = kube
             /\ atProvider' = atProvider
             /\ condition' = condition
             /\ CallsOf(calls', "kube.Update") = {}]_vars

C35_Witness ==
    /\ handler = "Observe"
    /\ Len(calls) = 2
    /\ calls[2].err = ErrNotFound
    /\ returned.err.msg = errListTopicTagsFailed
    /\ condition = ""
    /\ LateInitialize(kube, aws.attrs, aws.tags) # kube

-----------------------------------------------------------------------------
(* Convergence *)

\* C31: with every call succeeding and the service applying every change,
\* the passes of a Topic come to an Observe that reports the topic up to
\* date, whatever the desired parameters and the topic it starts from
C31_Converges == <>(par.pass.exists /\ par.pass.upToDate)

=============================================================================
